---- MODULE Spec2Model ----
(***************************************************************************)
(* XForm evaluator (src/xform/eval.py) and XML model                       *)
(* (src/xform/xmlmodel.py) as a state machine.                             *)
(*                                                                         *)
(* Python values are represented as follows.                               *)
(*   str            a sequence of one-character strings, <<"g","0">>       *)
(*   Optional[str]  a str, or NoneStr                                      *)
(*   number         an integer (the model's numbers are the integral       *)
(*                  doubles; int and float are not told apart)             *)
(*   item           a record [k, n, s, m]; k is the Python type            *)
(*   sequence       a sequence of items                                    *)
(*   Node           an index into the node store `heap`; a node record is  *)
(*                  [kind, name, value, children, attrs, parent], parent   *)
(*                  0 standing for None, attrs a sequence of <<name,       *)
(*                  value>> pairs in insertion order                       *)
(*   dict           a function where only membership and lookup matter     *)
(*                  (variables, functions, rules), a sequence of entries   *)
(*                  where insertion order matters (attrs, maps)            *)
(* A Python str standing where a sequence is expected indexes, iterates    *)
(* and measures as the list of its one-character strings; StrAsSeq is      *)
(* that list.                                                              *)
(***************************************************************************)
EXTENDS Integers, Sequences, FiniteSets, TLC

VARIABLES heap, pc, op, input, result, error, log, dicts, touched

vars == <<heap, pc, op, input, result, error, log, dicts, touched>>

\* ------------------------------------------------------------ bounds

\* Longest operand sequence handed to eval_binary.
MaxOperandLen == 1

\* Longest sequence iterated by for, match and apply.
MaxSeqLen == 3

\* Largest number of arguments handed to a user function.
MaxArgs == 3

\* Longest target sequence of a match expression or of apply.
MaxTargets == 2

\* Largest number of cases of a match expression, of rules of a rule set.
MaxCases == 2

\* Largest number of parameters of a user function.
MaxParams == 2

\* The most variable declarations of a module.
MaxDecls == 3

\* The most content items of a constructor.
MaxContents == 2

\* The most nodes there are when a copy of a copy is made.
MaxHeap == 6

\* The most pieces a serialized value is put together from.
MaxPieces == 3

\* The most pieces a source text handed to the parser is put together from.
MaxSource == 4

\* The most binary operators of an operator expression handed to the parser.
MaxOperators == 2

\* The most calls of peek and next made on a Lexer.
MaxCalls == 4

\* ------------------------------------------------------------ strings

NoneStr == <<"None">>

OrEmpty(s) == IF s = NoneStr THEN <<>> ELSE s

DigitChar == <<"0", "1", "2", "3", "4", "5", "6", "7", "8", "9">>

IsDigit(c) == \E i \in 1..Len(DigitChar) : DigitChar[i] = c

DigitVal(c) == (CHOOSE i \in 1..Len(DigitChar) : DigitChar[i] = c) - 1

RECURSIVE Digits(_)
\* str(int(n)) for n >= 0
Digits(n) ==
    IF n < Len(DigitChar) THEN <<DigitChar[n + 1]>>
    ELSE Digits(n \div Len(DigitChar)) \o <<DigitChar[(n % Len(DigitChar)) + 1]>>

\* str(int(n))
IntStr(n) == IF n < 0 THEN <<"-">> \o Digits(-n) ELSE Digits(n)

RECURSIVE DigitsVal(_, _)
DigitsVal(s, acc) ==
    IF s = <<>> THEN acc
    ELSE DigitsVal(Tail(s), acc * Len(DigitChar) + DigitVal(Head(s)))

RECURSIVE LStrip(_)
LStrip(s) == IF s # <<>> /\ Head(s) = " " THEN LStrip(Tail(s)) ELSE s

RECURSIVE RStrip(_)
RStrip(s) ==
    IF s # <<>> /\ s[Len(s)] = " " THEN RStrip(SubSeq(s, 1, Len(s) - 1)) ELSE s

AllDigits(s) == s # <<>> /\ \A i \in 1..Len(s) : IsDigit(s[i])

\* float(s) for a str s over the model's alphabet (letters other than those
\* of inf/nan, digits, sign, blank): [ok, n].  Surrounding blanks are
\* stripped, one sign is accepted, the rest must be digits.
ParseFloat(s) ==
    LET t == RStrip(LStrip(s))
        signed == t # <<>> /\ Head(t) \in {"-", "+"}
        body == IF signed THEN Tail(t) ELSE t
    IN  IF AllDigits(body)
        THEN [ok |-> TRUE,
              n |-> IF signed /\ Head(t) = "-" THEN -DigitsVal(body, 0)
                    ELSE DigitsVal(body, 0)]
        ELSE [ok |-> FALSE, n |-> 0]

\* ------------------------------------------------------------ items

Num(n) == [k |-> "num", n |-> n, s |-> <<>>, m |-> <<>>]

Str(s) == [k |-> "str", n |-> 0, s |-> s, m |-> <<>>]

Bool(b) == [k |-> "bool", n |-> IF b THEN 1 ELSE 0, s |-> <<>>, m |-> <<>>]

NodeItem(id) == [k |-> "node", n |-> id, s |-> <<>>, m |-> <<>>]

NoneItem == [k |-> "none", n |-> 0, s |-> <<>>, m |-> <<>>]

FunctionRef(name) == [k |-> "fref", n |-> 0, s |-> name, m |-> <<>>]

\* A dict item; an entry is [key, isstr, str, items]: the value is the str
\* `str` when isstr, else the list `items`.
MapItem(entries) == [k |-> "map", n |-> 0, s |-> <<>>, m |-> entries]

StrEntry(key, s) == [key |-> key, isstr |-> TRUE, str |-> s, items |-> <<>>]

ListEntry(key, items) == [key |-> key, isstr |-> FALSE, str |-> <<>>, items |-> items]

isNode(item) == item.k = "node"

StrAsSeq(s) == [i \in 1..Len(s) |-> Str(<<s[i]>>)]

\* ------------------------------------------------------------ nodes

\* dict is the identity of the node's attrs object, given by Alloc.
Node(kind, name, value, attrs, parent) ==
    [kind |-> kind, name |-> name, value |-> value, children |-> <<>>,
     attrs |-> attrs, parent |-> parent, dict |-> 0]

\* Node(...) as the next object of the store, with the dict made for its
\* attrs (every call site passes a new dict or none): [id, heap]
Alloc(h, node) ==
    [id |-> Len(h) + 1, heap |-> Append(h, [node EXCEPT !.dict = Len(h) + 1])]

HasAttr(attrs, name) == \E i \in 1..Len(attrs) : attrs[i][1] = name

AttrGet(attrs, name) ==
    attrs[CHOOSE i \in 1..Len(attrs) : attrs[i][1] = name][2]

RECURSIVE string_value(_, _)
RECURSIVE JoinStringValues(_, _)
JoinStringValues(h, ids) ==
    IF ids = <<>> THEN <<>>
    ELSE string_value(h, Head(ids)) \o JoinStringValues(h, Tail(ids))

string_value(h, id) ==
    IF h[id].kind = "text" THEN OrEmpty(h[id].value)
    ELSE IF h[id].kind = "attribute" THEN OrEmpty(h[id].value)
    ELSE IF h[id].kind \in {"element", "document"}
         THEN JoinStringValues(h, h[id].children)
    ELSE <<>>

RECURSIVE iter_descendants(_, _)
RECURSIVE IterDescendantsOf(_, _)
IterDescendantsOf(h, ids) ==
    IF ids = <<>> THEN <<>>
    ELSE <<Head(ids)>> \o iter_descendants(h, Head(ids))
         \o IterDescendantsOf(h, Tail(ids))

iter_descendants(h, id) == IterDescendantsOf(h, h[id].children)

\* ------------------------------------------------------------ XML loader

\* An ElementTree element: [tag, attrib, text, children, tail]
El(tag, attrib, text, children, tail) ==
    [tag |-> tag, attrib |-> attrib, text |-> text, children |-> children,
     tail |-> tail]

RECURSIVE _build_element(_, _)
RECURSIVE BuildChildren(_, _, _, _)
\* the loop over list(el): [heap, children]
BuildChildren(h, parent, els, children) ==
    IF els = <<>> THEN [heap |-> h, children |-> children]
    ELSE LET b == _build_element(h, Head(els))
             h1 == [b.heap EXCEPT ![b.id].parent = parent]
             t == Alloc(h1, Node("text", NoneStr, Head(els).tail, <<>>, parent))
         IN  IF OrEmpty(Head(els).tail) # <<>>
             THEN BuildChildren(t.heap, parent, Tail(els),
                                children \o <<b.id, t.id>>)
             ELSE BuildChildren(h1, parent, Tail(els), Append(children, b.id))

_build_element(h, el) ==
    LET a == Alloc(h, Node("element", el.tag, NoneStr, el.attrib, 0))
        t == Alloc(a.heap, Node("text", NoneStr, el.text, <<>>, a.id))
        withText == OrEmpty(el.text) # <<>>
        r == BuildChildren(IF withText THEN t.heap ELSE a.heap, a.id,
                           el.children, IF withText THEN <<t.id>> ELSE <<>>)
    IN  [id |-> a.id, heap |-> [r.heap EXCEPT ![a.id].children = r.children]]

\* parse_xml on the element tree ET.fromstring gives: [id, heap]
parse_xml(root_el) ==
    LET d == Alloc(<<>>, Node("document", NoneStr, NoneStr, <<>>, 0))
        b == _build_element(d.heap, root_el)
    IN  [id |-> d.id,
         heap |-> [b.heap EXCEPT ![b.id].parent = d.id,
                                 ![d.id].children = <<b.id>>]]

\* ------------------------------------------------------------ serializer

RECURSIVE Replace(_, _, _)
\* text.replace(old, new) for a one-character old
Replace(text, old, new) ==
    IF text = <<>> THEN <<>>
    ELSE (IF Head(text) = old THEN new ELSE <<Head(text)>>)
         \o Replace(Tail(text), old, new)

E_amp == <<"&", "a", "m", "p", ";">>

E_lt == <<"&", "l", "t", ";">>

E_gt == <<"&", "g", "t", ";">>

E_quot == <<"&", "q", "u", "o", "t", ";">>

\* _escape_text with `&` replaced last.
_escape_text_ampLast(text) ==
    Replace(Replace(Replace(text, "<", E_lt), ">", E_gt), "&", E_amp)

_escape_text(text) ==
    Replace(Replace(Replace(text, "&", E_amp), "<", E_lt), ">", E_gt)

_escape_attr(text) == Replace(_escape_text(text), "\"", E_quot)

RECURSIVE AttrsText(_)
\* "".join(f' {name}="{_escape_attr(value)}"' for name, value in attrs.items())
AttrsText(attrs) ==
    IF attrs = <<>> THEN <<>>
    ELSE <<" ">> \o Head(attrs)[1] \o <<"=", "\"">> \o _escape_attr(Head(attrs)[2])
         \o <<"\"">> \o AttrsText(Tail(attrs))

RECURSIVE serialize(_, _)
RECURSIVE SerializeAll(_, _)
\* "".join(serialize(c) for c in item.children)
SerializeAll(h, ids) ==
    IF ids = <<>> THEN <<>>
    ELSE serialize(h, Head(ids)) \o SerializeAll(h, Tail(ids))

serialize(h, id) ==
    LET item == h[id]
    IN  IF item.kind = "document" THEN SerializeAll(h, item.children)
        ELSE IF item.kind = "text" THEN _escape_text(OrEmpty(item.value))
        ELSE IF item.kind = "attribute" THEN _escape_attr(OrEmpty(item.value))
        ELSE IF item.kind = "element"
             THEN IF item.children = <<>>
                  THEN <<"<">> \o item.name \o AttrsText(item.attrs) \o <<"/", ">">>
                  ELSE <<"<">> \o item.name \o AttrsText(item.attrs) \o <<">">>
                       \o SerializeAll(h, item.children)
                       \o <<"<", "/">> \o item.name \o <<">">>
        ELSE <<>>

\* ------------------------------------------------------------ coercions

\* item not in (False, 0, 0.0, "", None)
Truthy(item) ==
    ~(  (item.k = "bool" /\ item.n = 0)
     \/ (item.k = "num" /\ item.n = 0)
     \/ (item.k = "str" /\ item.s = <<>>)
     \/ item.k = "none")

to_boolean(seq) ==
    IF seq = <<>> THEN FALSE
    ELSE IF \E i \in 1..Len(seq) : isNode(seq[i]) THEN TRUE
    ELSE \E i \in 1..Len(seq) : Truthy(seq[i])

\* str(item) of an item that is neither node, None, bool nor number.  The
\* repr of a dict is not spelled out: it is the one pseudo-character "{}".
PyStr(item) ==
    IF item.k = "str" THEN item.s
    ELSE IF item.k = "fref"
         THEN <<"F", "u", "n", "c", "t", "i", "o", "n", "R", "e", "f", "(",
                "n", "a", "m", "e", "=", "'">> \o item.s \o <<"'", ")">>
    ELSE <<"{}">>

to_string(h, seq) ==
    IF seq = <<>> THEN <<>>
    ELSE LET item == seq[1]
         IN  IF isNode(item) THEN string_value(h, item.n)
             ELSE IF item.k = "none" THEN <<>>
             ELSE IF item.k = "bool"
                  THEN IF item.n = 1 THEN <<"t", "r", "u", "e">>
                       ELSE <<"f", "a", "l", "s", "e">>
             ELSE IF item.k = "num" THEN IntStr(item.n)
             ELSE PyStr(item)

\* [err, n]: err is "XFDY0002" when float() raises
to_number(h, seq) ==
    IF seq = <<>> THEN [err |-> "", n |-> 0]
    ELSE LET first == seq[1]
             item == IF isNode(first) THEN Str(string_value(h, first.n)) ELSE first
             f == ParseFloat(item.s)
         IN  IF item.k = "bool" THEN [err |-> "", n |-> item.n]
             ELSE IF item.k = "num" THEN [err |-> "", n |-> item.n]
             ELSE IF item.k = "str" /\ f.ok THEN [err |-> "", n |-> f.n]
             ELSE [err |-> "XFDY0002", n |-> 0]

value_equal(h, left, right) == to_string(h, left) = to_string(h, right)

\* a % b on Python floats: the result has the sign of b
PyMod(a, b) == IF b > 0 THEN a % b ELSE -((-a) % (-b))

\* [err, item].  Numbers are the integral doubles: a quotient that is not
\* integral is reported as err "NonIntegral" and no input of the model
\* produces one.
eval_binary(h, bop, left, right) ==
    LET lnum == to_number(h, left)
        rnum == to_number(h, right)
        ok(item) == [err |-> "", item |-> item]
        fail(e) == [err |-> e, item |-> NoneItem]
    IN  IF bop = "and" THEN ok(Bool(to_boolean(left) /\ to_boolean(right)))
        ELSE IF bop = "or" THEN ok(Bool(to_boolean(left) \/ to_boolean(right)))
        ELSE IF lnum.err # "" THEN fail(lnum.err)
        ELSE IF rnum.err # "" THEN fail(rnum.err)
        ELSE IF bop = "+" THEN ok(Num(lnum.n + rnum.n))
        ELSE IF bop = "-" THEN ok(Num(lnum.n - rnum.n))
        ELSE IF bop = "*" THEN ok(Num(lnum.n * rnum.n))
        ELSE IF bop = "div"
             THEN IF rnum.n = 0 THEN fail("ZeroDivisionError")
                  ELSE IF PyMod(lnum.n, rnum.n) # 0 THEN fail("NonIntegral")
                  ELSE ok(Num((lnum.n - PyMod(lnum.n, rnum.n)) \div rnum.n))
        ELSE IF bop = "mod"
             THEN IF rnum.n = 0 THEN fail("ZeroDivisionError")
                  ELSE ok(Num(PyMod(lnum.n, rnum.n)))
        ELSE IF bop = "=" THEN ok(Bool(value_equal(h, left, right)))
        ELSE IF bop = "!=" THEN ok(Bool(~value_equal(h, left, right)))
        ELSE IF bop = "<" THEN ok(Bool(lnum.n < rnum.n))
        ELSE IF bop = "<=" THEN ok(Bool(lnum.n <= rnum.n))
        ELSE IF bop = ">" THEN ok(Bool(lnum.n > rnum.n))
        ELSE IF bop = ">=" THEN ok(Bool(lnum.n >= rnum.n))
        ELSE fail("Unknown operator")

\* ------------------------------------------------------------ AST

NoExpr == [type |-> "NoExpr"]

Literal(value) == [type |-> "Literal", value |-> value]

VarRef(name) == [type |-> "VarRef", name |-> name]

IfExpr(cond, then_expr, else_expr) ==
    [type |-> "IfExpr", cond |-> cond, then_expr |-> then_expr,
     else_expr |-> else_expr]

LetExpr(name, value, body) ==
    [type |-> "LetExpr", name |-> name, value |-> value, body |-> body]

ForExpr(name, seq, where, body) ==
    [type |-> "ForExpr", name |-> name, seq |-> seq, where |-> where,
     body |-> body]

\* cases: a sequence of <<pattern, body>>
MatchExpr(target, cases, default) ==
    [type |-> "MatchExpr", target |-> target, cases |-> cases,
     default |-> default]

FuncCall(name, args) == [type |-> "FuncCall", name |-> name, args |-> args]

UnaryOp(uop, expr) == [type |-> "UnaryOp", op |-> uop, expr |-> expr]

BinaryOp(bop, left, right) ==
    [type |-> "BinaryOp", op |-> bop, left |-> left, right |-> right]

PathExpr(start, steps) == [type |-> "PathExpr", start |-> start, steps |-> steps]

\* attrs: a sequence of <<name, expr>>
Constructor(name, attrs, contents) ==
    [type |-> "Constructor", name |-> name, attrs |-> attrs,
     contents |-> contents]

TextConstructor(expr) == [type |-> "TextConstructor", expr |-> expr]

Text(value) == [type |-> "Text", value |-> value]

Interp(expr) == [type |-> "Interp", expr |-> expr]

PathStart(kind, name) == [kind |-> kind, name |-> name]

StepTest(kind, name) == [kind |-> kind, name |-> name]

PathStep(axis, test, predicates) ==
    [axis |-> axis, test |-> test, predicates |-> predicates]

NoPattern == [type |-> "NoPattern"]

WildcardPattern == [type |-> "WildcardPattern"]

AttributePattern(name) == [type |-> "AttributePattern", name |-> name]

TypedPattern(kind) == [type |-> "TypedPattern", kind |-> kind]

\* var is NoneStr, child is NoPattern when not given
ElementPattern(name, var, child) ==
    [type |-> "ElementPattern", name |-> name, var |-> var, child |-> child]

\* default is NoExpr when not given
Param(name, default) == [name |-> name, default |-> default]

FunctionDef(params, body) == [params |-> params, body |-> body]

RuleDef(pattern, body) == [pattern |-> pattern, body |-> body]

\* ------------------------------------------------------------ context

NoPos == 0

\* position and last are NoPos for None
Context(context_item, variables, functions, rules, position, last) ==
    [context_item |-> context_item, variables |-> variables,
     functions |-> functions, rules |-> rules, position |-> position,
     last |-> last]

\* dict(d) followed by d.update(b)
Update(d, b) ==
    [x \in DOMAIN d \cup DOMAIN b |-> IF x \in DOMAIN b THEN b[x] ELSE d[x]]

\* dict(d) followed by d[name] = value
Bind(d, name, value) ==
    [x \in DOMAIN d \cup {name} |-> IF x = name THEN value ELSE d[x]]

\* d[name] = value on a dict, which keeps its keys in the order they were
\* first set in: a sequence of <<name, value>>
SetItem(d, name, value) ==
    IF \E i \in DOMAIN d : d[i][1] = name
    THEN [i \in DOMAIN d |-> IF d[i][1] = name THEN <<name, value>> ELSE d[i]]
    ELSE Append(d, <<name, value>>)

EmptyDict == [x \in {} |-> <<>>]

\* The evaluator's store: the nodes, and the names call_function was
\* entered with, in order.
Store(h, l) == [heap |-> h, log |-> l]

Ok(val, st) == [val |-> val, err |-> "", st |-> st]

Fail(err, st) == [val |-> <<>>, err |-> err, st |-> st]

NodeItems(ids) == [i \in 1..Len(ids) |-> NodeItem(ids[i])]

\* ------------------------------------------------------------ patterns

RECURSIVE match_pattern(_, _, _)
RECURSIVE MatchSomeChild(_, _, _)
\* for child in item.children: the first child the nested pattern matches
MatchSomeChild(h, pattern, ids) ==
    IF ids = <<>> THEN [matched |-> FALSE, bindings |-> EmptyDict]
    ELSE LET r == match_pattern(h, pattern, NodeItem(Head(ids)))
         IN  IF r.matched THEN [matched |-> TRUE, bindings |-> r.bindings]
             ELSE MatchSomeChild(h, pattern, Tail(ids))

match_pattern(h, pattern, item) ==
    LET yes == [matched |-> TRUE, bindings |-> EmptyDict]
        no == [matched |-> FALSE, bindings |-> EmptyDict]
    IN  IF pattern.type = "WildcardPattern" THEN yes
        ELSE IF pattern.type = "AttributePattern"
             THEN IF isNode(item) /\ h[item.n].kind = "attribute"
                     /\ h[item.n].name = pattern.name
                  THEN yes ELSE no
        ELSE IF pattern.type = "TypedPattern"
             THEN IF item.k = "none" THEN no
                  ELSE IF pattern.kind = "node"
                       THEN [matched |-> isNode(item), bindings |-> EmptyDict]
                  ELSE IF pattern.kind = "text"
                       THEN [matched |-> isNode(item) /\ h[item.n].kind = "text",
                             bindings |-> EmptyDict]
                  ELSE IF pattern.kind = "comment"
                       THEN [matched |-> isNode(item) /\ h[item.n].kind = "comment",
                             bindings |-> EmptyDict]
                  ELSE no
        ELSE IF pattern.type = "ElementPattern"
             THEN IF isNode(item) /\ h[item.n].kind = "element"
                     /\ h[item.n].name = pattern.name
                  THEN IF pattern.var # NoneStr
                       THEN [matched |-> TRUE,
                             bindings |-> Bind(EmptyDict, pattern.var,
                                               NodeItems(h[item.n].children))]
                       ELSE IF pattern.child.type # "NoPattern"
                            THEN MatchSomeChild(h, pattern.child,
                                                h[item.n].children)
                       ELSE yes
                  ELSE no
        ELSE no

\* ------------------------------------------------------------ evaluator

RECURSIVE eval_expr(_, _, _)
RECURSIVE eval_path(_, _, _)
RECURSIVE apply_step(_, _, _, _)
RECURSIVE eval_constructor(_, _, _)
RECURSIVE call_function(_, _, _, _)

\* ForCtx with enumerate counting from 0.
ForCtx_fromZero(expr, ctx, item, idx, total) ==
    Context(item, Bind(ctx.variables, expr.name, <<item>>), ctx.functions,
            ctx.rules, idx - 1, total)

\* The context of one iteration of a for expression (eval.py 63-72).
ForCtx(expr, ctx, item, idx, total) ==
    Context(item, Bind(ctx.variables, expr.name, <<item>>), ctx.functions,
            ctx.rules, idx, total)

RECURSIVE ForLoop(_, _, _, _, _, _)
\* for idx, item in enumerate(seq, start=1)
ForLoop(expr, ctx, seq, idx, out, st) ==
    IF idx > Len(seq) THEN Ok(out, st)
    ELSE LET new_ctx == ForCtx(expr, ctx, seq[idx], idx, Len(seq))
             filtered == expr.where.type # "NoExpr"
             w == eval_expr(expr.where, new_ctx, st)
             b == eval_expr(expr.body, new_ctx, IF filtered THEN w.st ELSE st)
         IN  IF filtered /\ w.err # "" THEN w
             ELSE IF filtered /\ ~to_boolean(w.val)
                  THEN ForLoop(expr, ctx, seq, idx + 1, out, w.st)
             ELSE IF b.err # "" THEN b
             ELSE ForLoop(expr, ctx, seq, idx + 1, out \o b.val, b.st)

\* FirstMatch taking the last case that matches.
FirstMatch_last(h, patterns, item) ==
    IF \E i \in 1..Len(patterns) : match_pattern(h, patterns[i], item).matched
    THEN CHOOSE i \in 1..Len(patterns) :
            /\ match_pattern(h, patterns[i], item).matched
            /\ \A j \in (i + 1)..Len(patterns) :
                  ~match_pattern(h, patterns[j], item).matched
    ELSE 0

\* The index of the first case whose pattern matches, 0 when none does.
FirstMatch(h, patterns, item) ==
    IF \E i \in 1..Len(patterns) : match_pattern(h, patterns[i], item).matched
    THEN CHOOSE i \in 1..Len(patterns) :
            /\ match_pattern(h, patterns[i], item).matched
            /\ \A j \in 1..(i - 1) : ~match_pattern(h, patterns[j], item).matched
    ELSE 0

\* The context of a matched case or rule body (eval.py 87-99, 688-693).
CaseCtx(ctx, target, bindings) ==
    Context(target, Update(ctx.variables, bindings), ctx.functions, ctx.rules,
            ctx.position, ctx.last)

RECURSIVE MatchLoop(_, _, _, _, _, _)
\* for target in target_seq
MatchLoop(expr, ctx, target_seq, i, out, st) ==
    IF i > Len(target_seq) THEN Ok(out, st)
    ELSE LET target == target_seq[i]
             patterns == [j \in 1..Len(expr.cases) |-> expr.cases[j][1]]
             c == FirstMatch(st.heap, patterns, target)
             m == match_pattern(st.heap, patterns[c], target)
             b == IF c # 0
                  THEN eval_expr(expr.cases[c][2], CaseCtx(ctx, target, m.bindings), st)
                  ELSE eval_expr(expr.default, CaseCtx(ctx, target, EmptyDict), st)
         IN  IF c = 0 /\ expr.default.type = "NoExpr" THEN Fail("XFDY0001", st)
             ELSE IF b.err # "" THEN b
             ELSE MatchLoop(expr, ctx, target_seq, i + 1, out \o b.val, b.st)

RECURSIVE EvalArgs(_, _, _, _)
\* [eval_expr(a, ctx) for a in expr.args]: val is the list of sequences
EvalArgs(args, ctx, acc, st) ==
    IF args = <<>> THEN Ok(acc, st)
    ELSE LET a == eval_expr(Head(args), ctx, st)
         IN  IF a.err # "" THEN a
             ELSE EvalArgs(Tail(args), ctx, Append(acc, a.val), a.st)

\* EvalAndOr with both operands evaluated before the result is decided.
EvalAndOr_eager(expr, ctx, st) ==
    LET left == eval_expr(expr.left, ctx, st)
        right == eval_expr(expr.right, ctx, left.st)
    IN  IF left.err # "" THEN left
        ELSE IF right.err # "" THEN right
        ELSE Ok(<<Bool(IF expr.op = "and"
                       THEN to_boolean(left.val) /\ to_boolean(right.val)
                       ELSE to_boolean(left.val) \/ to_boolean(right.val))>>, right.st)

\* The and/or branch of eval_expr (eval.py 130-141).
EvalAndOr(expr, ctx, st) ==
    LET left == eval_expr(expr.left, ctx, st)
        right == eval_expr(expr.right, ctx, left.st)
        decided == IF expr.op = "and" THEN ~to_boolean(left.val)
                   ELSE to_boolean(left.val)
    IN  IF left.err # "" THEN left
        ELSE IF decided THEN Ok(<<Bool(expr.op = "or")>>, left.st)
        ELSE IF right.err # "" THEN right
        ELSE Ok(<<Bool(to_boolean(right.val))>>, right.st)

\* EvalVarRef with the function table consulted before the variables.
EvalVarRef_functionsFirst(expr, ctx, st) ==
    IF expr.name \in DOMAIN ctx.functions THEN Ok(<<FunctionRef(expr.name)>>, st)
    ELSE IF expr.name \in DOMAIN ctx.variables
         THEN Ok(ctx.variables[expr.name], st)
    ELSE IF isNode(ctx.context_item)
         THEN Ok(NodeItems(SelectSeq(st.heap[ctx.context_item.n].children,
                     LAMBDA c : st.heap[c].kind = "element"
                                /\ st.heap[c].name = expr.name)), st)
    ELSE Ok(<<>>, st)

\* The VarRef branch of eval_expr (eval.py 35-46).
EvalVarRef(expr, ctx, st) ==
    IF expr.name \in DOMAIN ctx.variables THEN Ok(ctx.variables[expr.name], st)
    ELSE IF expr.name \in DOMAIN ctx.functions
         THEN Ok(<<FunctionRef(expr.name)>>, st)
    ELSE IF isNode(ctx.context_item)
         THEN Ok(NodeItems(SelectSeq(st.heap[ctx.context_item.n].children,
                     LAMBDA c : st.heap[c].kind = "element"
                                /\ st.heap[c].name = expr.name)), st)
    ELSE Ok(<<>>, st)

\* The context of a let body (eval.py 52-56).
LetCtx(expr, ctx, value) ==
    Context(ctx.context_item, Bind(ctx.variables, expr.name, value),
            ctx.functions, ctx.rules, ctx.position, ctx.last)

eval_expr(expr, ctx, st) ==
    IF expr.type = "Literal" THEN Ok(<<expr.value>>, st)
    ELSE IF expr.type = "VarRef" THEN EvalVarRef(expr, ctx, st)
    ELSE IF expr.type = "IfExpr"
         THEN LET c == eval_expr(expr.cond, ctx, st)
              IN  IF c.err # "" THEN c
                  ELSE IF to_boolean(c.val) THEN eval_expr(expr.then_expr, ctx, c.st)
                  ELSE eval_expr(expr.else_expr, ctx, c.st)
    ELSE IF expr.type = "LetExpr"
         THEN LET v == eval_expr(expr.value, ctx, st)
              IN  IF v.err # "" THEN v
                  ELSE eval_expr(expr.body, LetCtx(expr, ctx, v.val), v.st)
    ELSE IF expr.type = "ForExpr"
         THEN LET s == eval_expr(expr.seq, ctx, st)
              IN  IF s.err # "" THEN s
                  ELSE ForLoop(expr, ctx, s.val, 1, <<>>, s.st)
    ELSE IF expr.type = "MatchExpr"
         THEN LET t == eval_expr(expr.target, ctx, st)
              IN  IF t.err # "" THEN t
                  ELSE MatchLoop(expr, ctx, t.val, 1, <<>>, t.st)
    ELSE IF expr.type = "FuncCall"
         THEN LET a == EvalArgs(expr.args, ctx, <<>>, st)
              IN  IF a.err # "" THEN a
                  ELSE call_function(expr.name, a.val, ctx, a.st)
    ELSE IF expr.type = "UnaryOp" /\ expr.op \in {"-", "not"}
         THEN LET v == eval_expr(expr.expr, ctx, st)
                  n == to_number(v.st.heap, v.val)
              IN  IF v.err # "" THEN v
                  ELSE IF expr.op = "not" THEN Ok(<<Bool(~to_boolean(v.val))>>, v.st)
                  ELSE IF n.err # "" THEN Fail(n.err, v.st)
                  ELSE Ok(<<Num(-n.n)>>, v.st)
    ELSE IF expr.type = "UnaryOp"
         THEN LET v == eval_expr(expr.expr, ctx, st)
              IN  IF v.err # "" THEN v ELSE Fail("Unknown expr", v.st)
    ELSE IF expr.type = "BinaryOp" /\ expr.op \in {"and", "or"}
         THEN EvalAndOr(expr, ctx, st)
    ELSE IF expr.type = "BinaryOp"
         THEN LET left == eval_expr(expr.left, ctx, st)
                  right == eval_expr(expr.right, ctx, left.st)
                  r == eval_binary(right.st.heap, expr.op, left.val, right.val)
              IN  IF left.err # "" THEN left
                  ELSE IF right.err # "" THEN right
                  ELSE IF r.err # "" THEN Fail(r.err, right.st)
                  ELSE Ok(<<r.item>>, right.st)
    ELSE IF expr.type = "PathExpr" THEN eval_path(expr, ctx, st)
    ELSE IF expr.type = "Constructor" THEN eval_constructor(expr, ctx, st)
    ELSE IF expr.type = "TextConstructor"
         THEN LET v == eval_expr(expr.expr, ctx, st)
                  a == Alloc(v.st.heap,
                             Node("text", NoneStr, to_string(v.st.heap, v.val), <<>>, 0))
              IN  IF v.err # "" THEN v
                  ELSE Ok(<<NodeItem(a.id)>>, Store(a.heap, v.st.log))
    ELSE IF expr.type = "Text" THEN Ok(<<Str(expr.value)>>, st)
    ELSE IF expr.type = "Interp" THEN eval_expr(expr.expr, ctx, st)
    ELSE Fail("Unknown expr", st)

\* ------------------------------------------------------------ paths

RECURSIVE _root_of(_, _)
\* while node.parent is not None
_root_of(h, id) == IF h[id].parent # 0 THEN _root_of(h, h[id].parent) ELSE id

\* RootOf giving the document that was loaded, whatever the item.
RootOf_document(h, item) == <<NodeItem(1)>>

\* the items _root_of(item) returns
RootOf(h, item) == IF isNode(item) THEN <<NodeItem(_root_of(h, item.n))>> ELSE <<>>

_matches_test(h, id, test) ==
    IF test.kind = "node" THEN TRUE
    ELSE IF test.kind = "wildcard" THEN h[id].kind = "element"
    ELSE IF test.kind = "text" THEN h[id].kind = "text"
    ELSE IF test.kind = "comment" THEN h[id].kind = "comment"
    ELSE IF test.kind = "pi" THEN h[id].kind = "pi"
    ELSE IF test.kind = "name" THEN h[id].name = test.name
    ELSE FALSE

RECURSIVE AllocAttrs(_, _, _)
\* [Node(kind="attribute", name=k, value=v) for k, v in attrs]: [ids, heap]
AllocAttrs(h, attrs, ids) ==
    IF attrs = <<>> THEN [ids |-> ids, heap |-> h]
    ELSE LET a == Alloc(h, Node("attribute", Head(attrs)[1], Head(attrs)[2], <<>>, 0))
         IN  AllocAttrs(a.heap, Tail(attrs), Append(ids, a.id))

\* The candidates of one node on the step's axis (eval.py 238-265): [ids, heap]
Candidates(h, id, step) ==
    LET none == [ids |-> <<>>, heap |-> h]
        only(ids) == [ids |-> ids, heap |-> h]
    IN  IF step.axis = "self" THEN only(<<id>>)
        ELSE IF step.axis = "parent"
             THEN IF h[id].parent # 0 THEN only(<<h[id].parent>>) ELSE none
        ELSE IF step.axis = "desc_or_self" THEN only(<<id>> \o iter_descendants(h, id))
        ELSE IF step.axis = "desc" THEN only(iter_descendants(h, id))
        ELSE IF step.axis = "attr"
             THEN IF h[id].kind = "element"
                  THEN IF step.test.kind = "name"
                       THEN IF HasAttr(h[id].attrs, step.test.name)
                            THEN AllocAttrs(h, <<<<step.test.name,
                                     AttrGet(h[id].attrs, step.test.name)>>>>, <<>>)
                            ELSE none
                       ELSE IF step.test.kind = "wildcard"
                            THEN AllocAttrs(h, h[id].attrs, <<>>)
                       ELSE none
                  ELSE none
        ELSE IF h[id].kind \in {"element", "document"} THEN only(h[id].children)
        ELSE none

\* PredCtx with the predicate evaluated outside every iteration.
PredCtx_noPosition(ctx, cand) ==
    Context(NodeItem(cand), ctx.variables, ctx.functions, ctx.rules, NoPos, NoPos)

\* The context a predicate is evaluated in (eval.py 280).
PredCtx(ctx, cand) ==
    Context(NodeItem(cand), ctx.variables, ctx.functions, ctx.rules,
            ctx.position, ctx.last)

RECURSIVE AllPreds(_, _, _, _)
\* to_boolean(eval_expr(pred, ...)), r being what the predicate gave
PredHolds(preds, cand, ctx, r) ==
    IF r.err # "" THEN r
    ELSE IF ~to_boolean(r.val) THEN Ok(<<Bool(FALSE)>>, r.st)
    ELSE AllPreds(Tail(preds), cand, ctx, r.st)

\* all(to_boolean(eval_expr(pred, ...)) for pred in step.predicates):
\* val is <<Bool(result)>>
AllPreds(preds, cand, ctx, st) ==
    IF preds = <<>> THEN Ok(<<Bool(TRUE)>>, st)
    ELSE PredHolds(preds, cand, ctx, eval_expr(Head(preds), PredCtx(ctx, cand), st))

RECURSIVE FilterPreds(_, _, _, _, _)
\* if ok: out.append(cand), r being what the predicates gave
KeepIf(matched, step, ctx, out, r) ==
    IF r.err # "" THEN r
    ELSE FilterPreds(Tail(matched), step, ctx,
                     IF r.val[1].n = 1
                     THEN Append(out, NodeItem(Head(matched))) ELSE out,
                     r.st)

\* for cand in matched
FilterPreds(matched, step, ctx, out, st) ==
    IF matched = <<>> THEN Ok(out, st)
    ELSE KeepIf(matched, step, ctx, out,
                AllPreds(step.predicates, Head(matched), ctx, st))

RECURSIVE StepLoop(_, _, _, _, _)
\* the next item of the loop, r being what the item before it gave
NextItem(items, step, ctx, r) ==
    IF r.err # "" THEN r
    ELSE StepLoop(Tail(items), step, ctx, r.val, r.st)

\* for item in items
StepLoop(items, step, ctx, out, st) ==
    IF items = <<>> THEN Ok(out, st)
    ELSE IF ~isNode(Head(items)) THEN StepLoop(Tail(items), step, ctx, out, st)
    ELSE LET c == Candidates(st.heap, Head(items).n, step)
             matched == SelectSeq(c.ids, LAMBDA x : _matches_test(c.heap, x, step.test))
         IN  NextItem(items, step, ctx,
                      FilterPreds(matched, step, ctx, out, Store(c.heap, st.log)))

apply_step(items, step, ctx, st) == StepLoop(items, step, ctx, <<>>, st)

RECURSIVE StepsLoop(_, _, _, _)
\* current = apply_step(current, step, ctx), r being what the step gave
NextStep(steps, ctx, r) ==
    IF r.err # "" THEN r
    ELSE StepsLoop(r.val, Tail(steps), ctx, r.st)

\* for step in steps
StepsLoop(current, steps, ctx, st) ==
    IF steps = <<>> THEN Ok(current, st)
    ELSE NextStep(steps, ctx, apply_step(current, Head(steps), ctx, st))

eval_path(expr, ctx, st) ==
    LET self == IF ctx.context_item.k # "none" THEN <<ctx.context_item>> ELSE <<>>
        kind == expr.start.kind
        bound == kind = "var" /\ expr.start.name \in DOMAIN ctx.variables
        base == IF kind \in {"context", "desc"} THEN self
                ELSE IF kind \in {"root", "desc_root"}
                     THEN RootOf(st.heap, ctx.context_item)
                ELSE IF kind = "var"
                     THEN IF bound THEN ctx.variables[expr.start.name] ELSE self
                ELSE <<>>
        steps == IF kind = "var" /\ ~bound
                 THEN <<PathStep("child", StepTest("name", expr.start.name), <<>>)>>
                      \o expr.steps
                 ELSE expr.steps
    IN  StepsLoop(base, steps, ctx, st)

\* ------------------------------------------------------------ constructors

RECURSIVE deep_copy(_, _, _)
RECURSIVE CopyChildren(_, _, _, _, _)
\* CopyChildren with the copies of the children left without a parent.
CopyChildren_noParent(h, ids, recurse, copied, acc) ==
    IF ids = <<>> THEN [ids |-> acc, heap |-> h]
    ELSE LET c == deep_copy(h, Head(ids), recurse)
         IN  CopyChildren(c.heap, Tail(ids), recurse, copied, Append(acc, c.id))

\* [deep_copy(c, recurse) for c in node.children], each then given the
\* parent `copied`: [ids, heap]
CopyChildren(h, ids, recurse, copied, acc) ==
    IF ids = <<>> THEN [ids |-> acc, heap |-> h]
    ELSE LET c == deep_copy(h, Head(ids), recurse)
         IN  CopyChildren([c.heap EXCEPT ![c.id].parent = copied], Tail(ids),
                          recurse, copied, Append(acc, c.id))

\* deep_copy with the copy left under the parent of the original.
deep_copy_keepsParent(h, id, recurse) ==
    LET a == Alloc(h, Node(h[id].kind, h[id].name, h[id].value, h[id].attrs,
                           h[id].parent))
        c == CopyChildren(a.heap, h[id].children, recurse, a.id, <<>>)
    IN  IF recurse
        THEN [id |-> a.id, heap |-> [c.heap EXCEPT ![a.id].children = c.ids]]
        ELSE [id |-> a.id, heap |-> a.heap]

\* [id, heap]
deep_copy(h, id, recurse) ==
    LET a == Alloc(h, Node(h[id].kind, h[id].name, h[id].value, h[id].attrs, 0))
        c == CopyChildren(a.heap, h[id].children, recurse, a.id, <<>>)
    IN  IF recurse
        THEN [id |-> a.id, heap |-> [c.heap EXCEPT ![a.id].children = c.ids]]
        ELSE [id |-> a.id, heap |-> a.heap]

\* attrs[name] = value on an insertion-ordered dict
AttrSet(attrs, name, value) ==
    IF HasAttr(attrs, name)
    THEN [i \in 1..Len(attrs) |->
            IF attrs[i][1] = name THEN <<name, value>> ELSE attrs[i]]
    ELSE Append(attrs, <<name, value>>)

RECURSIVE ConstructAttrs(_, _, _, _)
\* for name, aexpr in expr.attrs: val is the attrs built
ConstructAttrs(attrs, ctx, acc, st) ==
    IF attrs = <<>> THEN Ok(acc, st)
    ELSE LET v == eval_expr(Head(attrs)[2], ctx, st)
         IN  IF v.err # "" THEN v
             ELSE ConstructAttrs(Tail(attrs), ctx,
                     AttrSet(acc, Head(attrs)[1], to_string(v.st.heap, v.val)), v.st)

RECURSIVE ContentItems(_, _, _)
\* ContentItems with the node items appended as they are, not copied.
ContentItems_shared(h, seq, acc) ==
    IF seq = <<>> THEN [ids |-> acc, heap |-> h]
    ELSE LET t == Alloc(h, Node("text", NoneStr, to_string(h, <<Head(seq)>>), <<>>, 0))
         IN  IF isNode(Head(seq)) THEN ContentItems(h, Tail(seq), Append(acc, Head(seq).n))
             ELSE ContentItems(t.heap, Tail(seq), Append(acc, t.id))

\* for item in seq: [ids, heap]
ContentItems(h, seq, acc) ==
    IF seq = <<>> THEN [ids |-> acc, heap |-> h]
    ELSE LET c == deep_copy(h, Head(seq).n, TRUE)
             t == Alloc(h, Node("text", NoneStr, to_string(h, <<Head(seq)>>), <<>>, 0))
         IN  IF isNode(Head(seq)) THEN ContentItems(c.heap, Tail(seq), Append(acc, c.id))
             ELSE ContentItems(t.heap, Tail(seq), Append(acc, t.id))

RECURSIVE ConstructContents(_, _, _, _)
\* for content in expr.contents: val is the list of child ids
ConstructContents(contents, ctx, acc, st) ==
    IF contents = <<>> THEN Ok(acc, st)
    ELSE LET content == Head(contents)
             t == Alloc(st.heap, Node("text", NoneStr, content.value, <<>>, 0))
             v == eval_expr(content, ctx, st)
             c == ContentItems(v.st.heap, v.val, acc)
         IN  IF content.type = "Text"
             THEN ConstructContents(Tail(contents), ctx, Append(acc, t.id),
                                    Store(t.heap, st.log))
             ELSE IF v.err # "" THEN v
             ELSE ConstructContents(Tail(contents), ctx, c.ids,
                                    Store(c.heap, v.st.log))

eval_constructor(expr, ctx, st) ==
    LET n == Alloc(st.heap, Node("element", expr.name, NoneStr, <<>>, 0))
        a == ConstructAttrs(expr.attrs, ctx, <<>>, Store(n.heap, st.log))
        c == ConstructContents(expr.contents, ctx, <<>>, a.st)
        h == [i \in 1..Len(c.st.heap) |->
                IF i = n.id
                THEN [c.st.heap[i] EXCEPT !.attrs = a.val, !.children = c.val]
                ELSE IF \E j \in 1..Len(c.val) : c.val[j] = i
                     THEN [c.st.heap[i] EXCEPT !.parent = n.id]
                ELSE c.st.heap[i]]
    IN  IF a.err # "" THEN a
        ELSE IF c.err # "" THEN c
        ELSE Ok(<<NodeItem(n.id)>>, Store(h, c.st.log))

\* ------------------------------------------------------------ str order

\* The characters of the model's strings in code point order; "{}" stands
\* for the repr of a dict.
CodePoints ==
    <<" ", "'", "(", ")", "+", "-", "0", "1", "2", "3", "4", "5", "6", "7",
      "8", "9", "=", "F", "R", "a", "b", "c", "d", "e", "f", "g", "h", "i",
      "j", "k", "l", "m", "n", "o", "p", "q", "r", "s", "t", "u", "v", "w",
      "x", "y", "z", "{}">>

CharOrd(c) == CHOOSE i \in 1..Len(CodePoints) : CodePoints[i] = c

RECURSIVE StrLess(_, _)
\* a < b on str
StrLess(a, b) ==
    IF b = <<>> THEN FALSE
    ELSE IF a = <<>> THEN TRUE
    ELSE IF Head(a) = Head(b) THEN StrLess(Tail(a), Tail(b))
    ELSE CharOrd(Head(a)) < CharOrd(Head(b))

RECURSIVE InsertByKey(_, _, _, _, _)
\* InsertByKey with (item, key) put before the entries of the same key.
InsertByKey_beforeEqual(items, keys, item, key, i) ==
    IF i > Len(items) \/ StrLess(key, keys[i]) \/ key = keys[i]
    THEN [items |-> SubSeq(items, 1, i - 1) \o <<item>> \o SubSeq(items, i, Len(items)),
          keys |-> SubSeq(keys, 1, i - 1) \o <<key>> \o SubSeq(keys, i, Len(keys))]
    ELSE InsertByKey(items, keys, item, key, i + 1)

\* (item, key) put behind every entry whose key is not greater: [items, keys]
InsertByKey(items, keys, item, key, i) ==
    IF i > Len(items) \/ StrLess(key, keys[i])
    THEN [items |-> SubSeq(items, 1, i - 1) \o <<item>> \o SubSeq(items, i, Len(items)),
          keys |-> SubSeq(keys, 1, i - 1) \o <<key>> \o SubSeq(keys, i, Len(keys))]
    ELSE InsertByKey(items, keys, item, key, i + 1)

RECURSIVE SortedBy(_, _, _)
\* sorted(seq, key=...) with the keys already computed: stable
SortedBy(seq, keys, acc) ==
    IF seq = <<>> THEN acc.items
    ELSE SortedBy(Tail(seq), Tail(keys),
                  InsertByKey(acc.items, acc.keys, Head(seq), Head(keys), 1))

\* ------------------------------------------------------------ built-ins

N_string == <<"s", "t", "r", "i", "n", "g">>

N_number == <<"n", "u", "m", "b", "e", "r">>

N_boolean == <<"b", "o", "o", "l", "e", "a", "n">>

N_typeOf == <<"t", "y", "p", "e", "O", "f">>

N_name == <<"n", "a", "m", "e">>

N_attr == <<"a", "t", "t", "r">>

N_text == <<"t", "e", "x", "t">>

N_children == <<"c", "h", "i", "l", "d", "r", "e", "n">>

N_elements == <<"e", "l", "e", "m", "e", "n", "t", "s">>

N_copy == <<"c", "o", "p", "y">>

N_count == <<"c", "o", "u", "n", "t">>

N_empty == <<"e", "m", "p", "t", "y">>

N_distinct == <<"d", "i", "s", "t", "i", "n", "c", "t">>

N_sort == <<"s", "o", "r", "t">>

N_concat == <<"c", "o", "n", "c", "a", "t">>

N_index == <<"i", "n", "d", "e", "x">>

N_lookup == <<"l", "o", "o", "k", "u", "p">>

N_groupBy == <<"g", "r", "o", "u", "p", "B", "y">>

N_seq == <<"s", "e", "q">>

N_sum == <<"s", "u", "m">>

N_head == <<"h", "e", "a", "d">>

N_tail == <<"t", "a", "i", "l">>

N_last == <<"l", "a", "s", "t">>

N_position == <<"p", "o", "s", "i", "t", "i", "o", "n">>

N_apply == <<"a", "p", "p", "l", "y">>

S_main == <<"m", "a", "i", "n">>

S_key == <<"k", "e", "y">>

S_items == <<"i", "t", "e", "m", "s">>

S_null == <<"n", "u", "l", "l">>

S_node == <<"n", "o", "d", "e">>

S_map == <<"m", "a", "p">>

\* the keys of BUILTINS (eval.py 711-737)
BuiltinNames ==
    {N_string, N_number, N_boolean, N_typeOf, N_name, N_attr, N_text,
     N_children, N_elements, N_copy, N_count, N_empty, N_distinct, N_sort,
     N_concat, N_index, N_lookup, N_groupBy, N_seq, N_sum, N_head, N_tail,
     N_last, N_position, N_apply}

\* args[0] if args else []
Arg0(args) == IF args = <<>> THEN <<>> ELSE args[1]

\* not args or not args[0]
NoArg0(args) == args = <<>> \/ args[1] = <<>>

_fn_typeof(args, ctx, st) ==
    LET item == args[1][1]
    IN  IF NoArg0(args) THEN Ok(<<Str(S_null)>>, st)
        ELSE IF isNode(item) THEN Ok(<<Str(S_node)>>, st)
        ELSE IF item.k = "map" THEN Ok(<<Str(S_map)>>, st)
        ELSE IF item.k = "bool" THEN Ok(<<Str(N_boolean)>>, st)
        ELSE IF item.k = "num" THEN Ok(<<Str(N_number)>>, st)
        ELSE IF item.k = "none" THEN Ok(<<Str(S_null)>>, st)
        ELSE Ok(<<Str(N_string)>>, st)

_fn_name(args, ctx, st) ==
    IF NoArg0(args) THEN Ok(<<Str(<<>>)>>, st)
    ELSE IF isNode(args[1][1]) THEN Ok(<<Str(OrEmpty(st.heap[args[1][1].n].name))>>, st)
    ELSE Ok(<<Str(<<>>)>>, st)

_fn_attr(args, ctx, st) ==
    LET node == args[1][1]
        key == to_string(st.heap, args[2])
    IN  IF NoArg0(args) THEN Ok(<<Str(<<>>)>>, st)
        ELSE IF ~isNode(node) \/ st.heap[node.n].kind # "element"
             THEN Ok(<<Str(<<>>)>>, st)
        ELSE IF Len(args) < 2 THEN Ok(<<Str(<<>>)>>, st)
        ELSE IF HasAttr(st.heap[node.n].attrs, key)
             THEN Ok(<<Str(AttrGet(st.heap[node.n].attrs, key))>>, st)
        ELSE Ok(<<Str(<<>>)>>, st)

RECURSIVE DirectText(_, _)
\* "".join(child.value or "" for child in children if child.kind == "text")
DirectText(h, ids) ==
    IF ids = <<>> THEN <<>>
    ELSE (IF h[Head(ids)].kind = "text" THEN OrEmpty(h[Head(ids)].value) ELSE <<>>)
         \o DirectText(h, Tail(ids))

_fn_text(args, ctx, st) ==
    LET node == args[1][1]
        deep == IF Len(args) > 1 THEN to_boolean(args[2]) ELSE TRUE
    IN  IF NoArg0(args) THEN Ok(<<Str(<<>>)>>, st)
        ELSE IF ~isNode(node) THEN Ok(<<Str(to_string(st.heap, args[1]))>>, st)
        ELSE IF deep THEN Ok(<<Str(string_value(st.heap, node.n))>>, st)
        ELSE IF st.heap[node.n].kind \in {"element", "document"}
             THEN Ok(<<Str(DirectText(st.heap, st.heap[node.n].children))>>, st)
        ELSE Ok(<<Str(string_value(st.heap, node.n))>>, st)

_fn_children(args, ctx, st) ==
    IF NoArg0(args) THEN Ok(<<>>, st)
    ELSE IF isNode(args[1][1]) THEN Ok(NodeItems(st.heap[args[1][1].n].children), st)
    ELSE Ok(<<>>, st)

_fn_elements(args, ctx, st) ==
    LET node == args[1][1]
        h == st.heap
        name_test == IF Len(args) > 1 THEN to_string(h, args[2]) ELSE <<>>
        out == SelectSeq(h[node.n].children, LAMBDA c : h[c].kind = "element")
    IN  IF NoArg0(args) THEN Ok(<<>>, st)
        ELSE IF ~isNode(node) \/ h[node.n].kind \notin {"element", "document"}
             THEN Ok(<<>>, st)
        ELSE IF name_test # <<>>
             THEN Ok(NodeItems(SelectSeq(out, LAMBDA c : h[c].name = name_test)), st)
        ELSE Ok(NodeItems(out), st)

_fn_copy(args, ctx, st) ==
    LET node == args[1][1]
        recurse == IF Len(args) > 1 THEN to_boolean(args[2]) ELSE TRUE
        c == deep_copy(st.heap, node.n, recurse)
    IN  IF NoArg0(args) THEN Ok(<<>>, st)
        ELSE IF ~isNode(node) THEN Ok(<<>>, st)
        ELSE Ok(<<NodeItem(c.id)>>, Store(c.heap, st.log))

RECURSIVE Flatten(_)
\* out.extend(seq) for seq in args
Flatten(args) == IF args = <<>> THEN <<>> ELSE Head(args) \o Flatten(Tail(args))

RECURSIVE Distinct(_, _, _, _)
\* Distinct keeping the last item of each key.
Distinct_keepLast(h, seq, seen, out) ==
    IF seq = <<>> THEN out
    ELSE LET key == to_string(h, <<Head(seq)>>)
             later == \E k \in 2..Len(seq) : to_string(h, <<seq[k]>>) = key
         IN  IF later THEN Distinct(h, Tail(seq), seen, out)
             ELSE Distinct(h, Tail(seq), seen, Append(out, Head(seq)))

\* the loop of _fn_distinct
Distinct(h, seq, seen, out) ==
    IF seq = <<>> THEN out
    ELSE LET key == to_string(h, <<Head(seq)>>)
         IN  IF key \in seen THEN Distinct(h, Tail(seq), seen, out)
             ELSE Distinct(h, Tail(seq), seen \cup {key}, Append(out, Head(seq)))

\* The name of the function reference heading args[1], NoneStr without one.
KeyFn(args) ==
    IF Len(args) > 1 /\ args[2] # <<>> /\ args[2][1].k = "fref" /\ args[2][1].s # <<>>
    THEN args[2][1].s ELSE NoneStr

RECURSIVE KeysOf(_, _, _, _, _)
\* the key of each item of seq: to_string(call_function(key_fn, [[item]], ctx))
\* with a key function, to_string([item]) without; val is the list of keys
KeysOf(seq, key_fn, ctx, acc, st) ==
    IF seq = <<>> THEN Ok(acc, st)
    ELSE IF key_fn = NoneStr
         THEN KeysOf(Tail(seq), key_fn, ctx,
                     Append(acc, to_string(st.heap, <<Head(seq)>>)), st)
    ELSE LET r == call_function(key_fn, <<<<Head(seq)>>>>, ctx, st)
         IN  IF r.err # "" THEN r
             ELSE KeysOf(Tail(seq), key_fn, ctx,
                         Append(acc, to_string(r.st.heap, r.val)), r.st)

_fn_sort(args, ctx, st) ==
    LET keys == KeysOf(args[1], KeyFn(args), ctx, <<>>, st)
    IN  IF args = <<>> THEN Ok(<<>>, st)
        ELSE IF keys.err # "" THEN keys
        ELSE Ok(SortedBy(args[1], keys.val, [items |-> <<>>, keys |-> <<>>]), keys.st)

_fn_last(args, ctx, st) ==
    IF NoArg0(args)
    THEN IF ctx.last = NoPos THEN Ok(<<>>, st) ELSE Ok(<<Num(ctx.last)>>, st)
    ELSE Ok(<<args[1][Len(args[1])]>>, st)

_fn_position(args, ctx, st) ==
    IF ctx.position = NoPos THEN Ok(<<>>, st) ELSE Ok(<<Num(ctx.position)>>, st)

RECURSIVE SetDefaultAppend(_, _, _, _)
\* SetDefaultAppend that looks only at the entry made last.
SetDefaultAppend_lastOnly(entries, key, item, i) ==
    IF entries # <<>> /\ entries[Len(entries)].key = key
    THEN [entries EXCEPT ![Len(entries)].items = Append(@, item)]
    ELSE Append(entries, ListEntry(key, <<item>>))

\* groups.setdefault(key, []).append(item) on an insertion-ordered dict
SetDefaultAppend(entries, key, item, i) ==
    IF i > Len(entries) THEN Append(entries, ListEntry(key, <<item>>))
    ELSE IF entries[i].key = key
         THEN [entries EXCEPT ![i].items = Append(@, item)]
    ELSE SetDefaultAppend(entries, key, item, i + 1)

RECURSIVE Grouped(_, _, _)
\* the dict the loops of _fn_index and _fn_group_by build
Grouped(seq, keys, entries) ==
    IF seq = <<>> THEN entries
    ELSE Grouped(Tail(seq), Tail(keys),
                 SetDefaultAppend(entries, Head(keys), Head(seq), 1))

_fn_index(args, ctx, st) ==
    LET keys == KeysOf(args[1], KeyFn(args), ctx, <<>>, st)
    IN  IF args = <<>> THEN Ok(<<>>, st)
        ELSE IF keys.err # "" THEN keys
        ELSE Ok(<<MapItem(Grouped(args[1], keys.val, <<>>))>>, keys.st)

\* {"key": k, "items": v}
GroupMap(entry) ==
    MapItem(<<StrEntry(S_key, entry.key), ListEntry(S_items, entry.items)>>)

_fn_group_by(args, ctx, st) ==
    LET keys == KeysOf(args[1], KeyFn(args), ctx, <<>>, st)
        groups == Grouped(args[1], keys.val, <<>>)
    IN  IF Len(args) < 2 THEN Ok(<<>>, st)
        ELSE IF keys.err # "" THEN keys
        ELSE Ok([i \in 1..Len(groups) |-> GroupMap(groups[i])], keys.st)

\* mapping.get(key, []): the value as the evaluator then uses it, a str
\* value being taken for a sequence
MapGet(entries, key) ==
    IF \E i \in 1..Len(entries) : entries[i].key = key
    THEN LET e == entries[CHOOSE i \in 1..Len(entries) : entries[i].key = key]
         IN  IF e.isstr THEN StrAsSeq(e.str) ELSE e.items
    ELSE <<>>

_fn_lookup(args, ctx, st) ==
    IF Len(args) < 2 THEN Ok(<<>>, st)
    ELSE IF args[1] = <<>> THEN Ok(<<>>, st)
    ELSE IF args[1][1].k # "map" THEN Ok(<<>>, st)
    ELSE Ok(MapGet(args[1][1].m, to_string(st.heap, args[2])), st)

RECURSIVE ApplyLoop(_, _, _, _, _)
\* out.extend(eval_expr(rule.body, new_ctx)), b being what the body gave
\* (eval.py 694-696)
ApplyExtend(seq, rules, ctx, out, b) ==
    IF b.err # "" THEN b
    ELSE ApplyLoop(Tail(seq), rules, ctx, out \o b.val, b.st)

\* for item in seq (eval.py 682-698)
ApplyLoop(seq, rules, ctx, out, st) ==
    IF seq = <<>> THEN Ok(out, st)
    ELSE LET item == Head(seq)
             patterns == [j \in 1..Len(rules) |-> rules[j].pattern]
             c == FirstMatch(st.heap, patterns, item)
             m == match_pattern(st.heap, patterns[c], item)
         IN  IF c = 0 THEN Fail("XFDY0001", st)
             ELSE ApplyExtend(seq, rules, ctx, out,
                     eval_expr(rules[c].body, CaseCtx(ctx, item, m.bindings), st))

\* _fn_apply with the rule set argument ignored.
_fn_apply_mainOnly(args, ctx, st) ==
    LET rules == IF S_main \in DOMAIN ctx.rules THEN ctx.rules[S_main] ELSE <<>>
    IN  IF args = <<>> THEN Ok(<<>>, st)
        ELSE ApplyLoop(args[1], rules, ctx, <<>>, st)

_fn_apply(args, ctx, st) ==
    LET ruleset == IF Len(args) > 1 /\ args[2] # <<>>
                   THEN to_string(st.heap, args[2]) ELSE S_main
        rules == IF ruleset \in DOMAIN ctx.rules THEN ctx.rules[ruleset] ELSE <<>>
    IN  IF args = <<>> THEN Ok(<<>>, st)
        ELSE ApplyLoop(args[1], rules, ctx, <<>>, st)

RECURSIVE Sum(_, _, _)
\* the loop of _fn_sum: [err, n]
Sum(h, seq, total) ==
    IF seq = <<>> THEN [err |-> "", n |-> total]
    ELSE LET x == to_number(h, <<Head(seq)>>)
         IN  IF x.err # "" THEN x ELSE Sum(h, Tail(seq), total + x.n)

\* BUILTINS[name](args, ctx)
CallBuiltin(name, args, ctx, st) ==
    LET h == st.heap
        num == to_number(h, Arg0(args))
        total == Sum(h, args[1], 0)
    IN  IF name = N_string THEN Ok(<<Str(to_string(h, Arg0(args)))>>, st)
        ELSE IF name = N_number
             THEN IF num.err # "" THEN Fail(num.err, st) ELSE Ok(<<Num(num.n)>>, st)
        ELSE IF name = N_boolean THEN Ok(<<Bool(to_boolean(Arg0(args)))>>, st)
        ELSE IF name = N_typeOf THEN _fn_typeof(args, ctx, st)
        ELSE IF name = N_name THEN _fn_name(args, ctx, st)
        ELSE IF name = N_attr THEN _fn_attr(args, ctx, st)
        ELSE IF name = N_text THEN _fn_text(args, ctx, st)
        ELSE IF name = N_children THEN _fn_children(args, ctx, st)
        ELSE IF name = N_elements THEN _fn_elements(args, ctx, st)
        ELSE IF name = N_copy THEN _fn_copy(args, ctx, st)
        ELSE IF name = N_count THEN Ok(<<Num(Len(Arg0(args)))>>, st)
        ELSE IF name = N_empty THEN Ok(<<Bool(Arg0(args) = <<>>)>>, st)
        ELSE IF name = N_distinct
             THEN IF args = <<>> THEN Ok(<<>>, st)
                  ELSE Ok(Distinct(h, args[1], {}, <<>>), st)
        ELSE IF name = N_sort THEN _fn_sort(args, ctx, st)
        ELSE IF name \in {N_concat, N_seq} THEN Ok(Flatten(args), st)
        ELSE IF name = N_index THEN _fn_index(args, ctx, st)
        ELSE IF name = N_lookup THEN _fn_lookup(args, ctx, st)
        ELSE IF name = N_groupBy THEN _fn_group_by(args, ctx, st)
        ELSE IF name = N_sum
             THEN IF args = <<>> THEN Ok(<<Num(0)>>, st)
                  ELSE IF total.err # "" THEN Fail(total.err, st)
                  ELSE Ok(<<Num(total.n)>>, st)
        ELSE IF name = N_head
             THEN IF NoArg0(args) THEN Ok(<<>>, st) ELSE Ok(<<args[1][1]>>, st)
        ELSE IF name = N_tail
             THEN IF NoArg0(args) THEN Ok(<<>>, st) ELSE Ok(Tail(args[1]), st)
        ELSE IF name = N_last THEN _fn_last(args, ctx, st)
        ELSE IF name = N_position THEN _fn_position(args, ctx, st)
        ELSE _fn_apply(args, ctx, st)

\* ------------------------------------------------------------ calls

RECURSIVE BindDefaults(_, _, _, _)
\* new_vars[param.name] = eval_expr(param.default, ctx), d being what the
\* default gave (eval.py 346)
BindDefault(params, ctx, new_vars, d) ==
    IF d.err # "" THEN d
    ELSE BindDefaults(Tail(params), ctx,
                      Bind(new_vars, Head(params).name, d.val), d.st)

\* for param in params[len(args):] (eval.py 343-346): val is new_vars
BindDefaults(params, ctx, new_vars, st) ==
    IF params = <<>> THEN Ok(new_vars, st)
    ELSE IF Head(params).default.type = "NoExpr" THEN Fail("XFDY0002", st)
    ELSE BindDefault(params, ctx, new_vars, eval_expr(Head(params).default, ctx, st))

RECURSIVE BindArgs(_, _, _)
\* for param, value in zip(params, args): new_vars[param.name] = value
BindArgs(params, args, new_vars) ==
    IF params = <<>> \/ args = <<>> THEN new_vars
    ELSE BindArgs(Tail(params), Tail(args), Bind(new_vars, Head(params).name, Head(args)))

\* CallBody with the body evaluated outside every iteration.
CallBody_noPosition(func, ctx, d) ==
    IF d.err # "" THEN d
    ELSE eval_expr(func.body,
                   Context(ctx.context_item, d.val, ctx.functions, ctx.rules,
                           NoPos, NoPos),
                   d.st)

\* new_ctx = Context(..., variables=new_vars, ...) and the evaluation of
\* the body in it (eval.py 347-348), d holding new_vars.
CallBody(func, ctx, d) ==
    IF d.err # "" THEN d
    ELSE eval_expr(func.body,
                   Context(ctx.context_item, d.val, ctx.functions, ctx.rules,
                           ctx.position, ctx.last),
                   d.st)

\* CallUser with the defaults evaluated where the arguments are bound.
CallUser_defaultsSeeParams(func, args, ctx, st) ==
    LET bound == BindArgs(func.params, args, ctx.variables)
        inner == Context(ctx.context_item, bound, ctx.functions, ctx.rules,
                         ctx.position, ctx.last)
    IN  IF Len(args) > Len(func.params) THEN Fail("XFDY0002", st)
        ELSE CallBody(func, ctx,
                BindDefaults(SubSeq(func.params, Len(args) + 1, Len(func.params)),
                             inner, bound, st))

\* The user-function branch of call_function (eval.py 334-348).
CallUser(func, args, ctx, st) ==
    LET bound == BindArgs(func.params, args, ctx.variables)
    IN  IF Len(args) > Len(func.params) THEN Fail("XFDY0002", st)
        ELSE CallBody(func, ctx,
                BindDefaults(SubSeq(func.params, Len(args) + 1, Len(func.params)),
                             ctx, bound, st))

\* Dispatch with the built-ins consulted first.
Dispatch_builtinFirst(name, ctx) ==
    IF name \in BuiltinNames THEN "builtin"
    ELSE IF name \in DOMAIN ctx.functions THEN "user"
    ELSE "unknown"

\* Which table a call goes to (eval.py 333, 350-352).
Dispatch(name, ctx) ==
    IF name \in DOMAIN ctx.functions THEN "user"
    ELSE IF name \in BuiltinNames THEN "builtin"
    ELSE "unknown"

\* Every entry is recorded in the store's log.
call_function(name, args, ctx, st) ==
    LET entered == Store(st.heap, Append(st.log, name))
        target == Dispatch(name, ctx)
    IN  IF target = "user" THEN CallUser(ctx.functions[name], args, ctx, entered)
        ELSE IF target = "unknown" THEN Fail("XFST0003", entered)
        ELSE CallBuiltin(name, args, ctx, entered)

\* ------------------------------------------------------------ modules

RECURSIVE BindVars(_, _, _)
\* variables[name] = eval_expr(expr, ctx), r being what eval_expr returned;
\* ctx holds the one mapping `variables`, so it sees the new entry
BindVar(items, ctx, name, r) ==
    IF r.err # "" THEN r
    ELSE BindVars(items, [ctx EXCEPT !.variables = Bind(@, name, r.val)], r.st)

\* for name, expr in module.vars.items(): val is the context afterwards
BindVars(items, ctx, st) ==
    IF items = <<>> THEN Ok(ctx, st)
    ELSE BindVar(Tail(items), ctx, Head(items)[1],
                 eval_expr(Head(items)[2], ctx, st))

\* if module.expr is None: return []; return eval_expr(module.expr, ctx)
TopLevel(module, r) ==
    IF r.err # "" THEN r
    ELSE IF module.expr = NoExpr THEN Ok(<<>>, r.st)
    ELSE eval_expr(module.expr, r.val, r.st)

eval_module(module, doc, st) ==
    TopLevel(module,
               BindVars(module.vars,
                        Context(doc, EmptyDict, module.functions, module.rules,
                                NoPos, NoPos),
                        st))

\* ------------------------------------------------------------ scopes

(***************************************************************************)
(* The evaluator once more, with the variable mappings as objects: a       *)
(* context holds the index of its mapping in `dicts`, dict(ctx.variables)  *)
(* makes a new mapping, and new_vars[name] = value writes into one. A      *)
(* mapping is sealed when a Context is built on it; `touched` tells        *)
(* whether a sealed mapping was ever written.                              *)
(***************************************************************************)
Scope(h, ds, sealed, written) ==
    [heap |-> h, dicts |-> ds, sealed |-> sealed, touched |-> written]

\* new_vars = ctx.variables, the mapping not copied.
CopyVars_shared(st, id) == [id |-> id, st |-> st]

\* new_vars = dict(ctx.variables): [id, st]
CopyVars(st, id) ==
    [id |-> Len(st.dicts) + 1, st |-> [st EXCEPT !.dicts = Append(@, @[id])]]

\* new_vars[name] = value
SetVar(st, id, name, value) ==
    [st EXCEPT !.dicts[id] = Bind(@, name, value),
               !.touched = @ \/ id \in st.sealed]

\* new_vars.update(bindings)
UpdateVars(st, id, bindings) ==
    [st EXCEPT !.dicts[id] = Update(@, bindings),
               !.touched = @ \/ (id \in st.sealed /\ bindings # EmptyDict)]

\* Context(item, new_vars, ctx.functions, ctx.rules, position, last): [ctx, st]
Enter(ctx, item, nv, position, last) ==
    [ctx |-> Context(item, nv.id, ctx.functions, ctx.rules, position, last),
     st |-> [nv.st EXCEPT !.sealed = @ \cup {nv.id}]]

\* The context with its mapping in place of the index
Resolve(ctx, st) == [ctx EXCEPT !.variables = st.dicts[@]]

RECURSIVE eval_scoped(_, _, _)

\* The unary operators (eval.py 121-129), v being what expr.expr gave
ScopedUnary(expr, v) ==
    IF v.err # "" THEN v
    ELSE IF expr.op = "not" THEN Ok(<<Bool(~to_boolean(v.val))>>, v.st)
    ELSE IF expr.op # "-" THEN Fail("Unknown expr", v.st)
    ELSE IF to_number(v.st.heap, v.val).err # ""
    THEN Fail(to_number(v.st.heap, v.val).err, v.st)
    ELSE Ok(<<Num(-to_number(v.st.heap, v.val).n)>>, v.st)

\* Literal and VarRef (eval.py 33-46). The constructors, which bind no
\* name and build no context, are evaluated by eval_expr above and not here.
ScopedAtom(expr, ctx, st) ==
    IF expr.type = "Literal" THEN Ok(<<expr.value>>, st)
    ELSE IF expr.type = "VarRef"
    THEN Ok(EvalVarRef(expr, Resolve(ctx, st), Store(st.heap, <<>>)).val, st)
    ELSE Fail("Unknown expr", st)

\* eval.py 50-57, v being what expr.value gave
ScopedLetBody(expr, e) == eval_scoped(expr.body, e.ctx, e.st)

ScopedLet(expr, ctx, v) ==
    IF v.err # "" THEN v
    ELSE ScopedLetBody(expr,
            Enter(ctx, ctx.context_item,
                  [id |-> CopyVars(v.st, ctx.variables).id,
                   st |-> SetVar(CopyVars(v.st, ctx.variables).st,
                                 CopyVars(v.st, ctx.variables).id, expr.name, v.val)],
                  ctx.position, ctx.last))

RECURSIVE ScopedFor(_, _, _, _, _, _)
\* out.extend(eval_expr(expr.body, new_ctx)), b being what the body gave
ScopedForExtend(expr, ctx, seq, idx, out, b) ==
    IF b.err # "" THEN b
    ELSE ScopedFor(expr, ctx, seq, idx + 1, out \o b.val, b.st)

\* w being what expr.where gave in the context e.ctx
ScopedForWhere(expr, ctx, seq, idx, out, e, w) ==
    IF w.err # "" THEN w
    ELSE IF ~to_boolean(w.val) THEN ScopedFor(expr, ctx, seq, idx + 1, out, w.st)
    ELSE ScopedForExtend(expr, ctx, seq, idx, out, eval_scoped(expr.body, e.ctx, w.st))

\* One iteration in its context (eval.py 62-76)
ScopedForItem(expr, ctx, seq, idx, out, e) ==
    IF expr.where.type # "NoExpr"
    THEN ScopedForWhere(expr, ctx, seq, idx, out, e, eval_scoped(expr.where, e.ctx, e.st))
    ELSE ScopedForExtend(expr, ctx, seq, idx, out, eval_scoped(expr.body, e.ctx, e.st))

\* for idx, item in enumerate(seq, start=1)
ScopedFor(expr, ctx, seq, idx, out, st) ==
    IF idx > Len(seq) THEN Ok(out, st)
    ELSE ScopedForItem(expr, ctx, seq, idx, out,
            Enter(ctx, seq[idx],
                  [id |-> CopyVars(st, ctx.variables).id,
                   st |-> SetVar(CopyVars(st, ctx.variables).st,
                                 CopyVars(st, ctx.variables).id, expr.name,
                                 <<seq[idx]>>)],
                  idx, Len(seq)))

\* The context of a case, a default or a rule body (eval.py 87-99, 107-117,
\* 688-693): the mapping copied and the bindings entered
EnterCase(ctx, item, bindings, st) ==
    Enter(ctx, item,
          [id |-> CopyVars(st, ctx.variables).id,
           st |-> UpdateVars(CopyVars(st, ctx.variables).st,
                             CopyVars(st, ctx.variables).id, bindings)],
          ctx.position, ctx.last)

\* The default of a match: dict(ctx.variables) and nothing entered
EnterDefault(ctx, item, st) ==
    Enter(ctx, item, CopyVars(st, ctx.variables), ctx.position, ctx.last)

ScopedBody(body, e) == eval_scoped(body, e.ctx, e.st)

RECURSIVE ScopedMatch(_, _, _, _, _, _)
ScopedMatchExtend(expr, ctx, target_seq, i, out, b) ==
    IF b.err # "" THEN b
    ELSE ScopedMatch(expr, ctx, target_seq, i + 1, out \o b.val, b.st)

\* c is the index of the first case that matches, 0 when none does
ScopedMatchCase(expr, ctx, target_seq, i, out, st, c) ==
    IF c # 0
    THEN ScopedMatchExtend(expr, ctx, target_seq, i, out,
            ScopedBody(expr.cases[c][2],
                EnterCase(ctx, target_seq[i],
                          match_pattern(st.heap, expr.cases[c][1], target_seq[i]).bindings,
                          st)))
    ELSE IF expr.default.type = "NoExpr" THEN Fail("XFDY0001", st)
    ELSE ScopedMatchExtend(expr, ctx, target_seq, i, out,
            ScopedBody(expr.default, EnterDefault(ctx, target_seq[i], st)))

\* for target in target_seq (eval.py 80-118)
ScopedMatch(expr, ctx, target_seq, i, out, st) ==
    IF i > Len(target_seq) THEN Ok(out, st)
    ELSE ScopedMatchCase(expr, ctx, target_seq, i, out, st,
            FirstMatch(st.heap, [j \in 1..Len(expr.cases) |-> expr.cases[j][1]],
                       target_seq[i]))

RECURSIVE ScopedArgs(_, _, _, _)
ScopedArg(args, ctx, acc, a) ==
    IF a.err # "" THEN a ELSE ScopedArgs(Tail(args), ctx, Append(acc, a.val), a.st)

\* [eval_expr(a, ctx) for a in expr.args]
ScopedArgs(args, ctx, acc, st) ==
    IF args = <<>> THEN Ok(acc, st)
    ELSE ScopedArg(args, ctx, acc, eval_scoped(Head(args), ctx, st))

RECURSIVE ScopedApply(_, _, _, _, _)
ScopedApplyExtend(seq, rules, ctx, out, b) ==
    IF b.err # "" THEN b
    ELSE ScopedApply(Tail(seq), rules, ctx, out \o b.val, b.st)

ScopedRule(seq, rules, ctx, out, st, c) ==
    IF c = 0 THEN Fail("XFDY0001", st)
    ELSE ScopedApplyExtend(seq, rules, ctx, out,
            ScopedBody(rules[c].body,
                EnterCase(ctx, Head(seq),
                          match_pattern(st.heap, rules[c].pattern, Head(seq)).bindings,
                          st)))

\* The loop of _fn_apply (eval.py 682-698)
ScopedApply(seq, rules, ctx, out, st) ==
    IF seq = <<>> THEN Ok(out, st)
    ELSE ScopedRule(seq, rules, ctx, out, st,
            FirstMatch(st.heap, [j \in 1..Len(rules) |-> rules[j].pattern], Head(seq)))

RECURSIVE ScopedZip(_, _, _)
\* for param, value in zip(params, args): new_vars[param.name] = value
ScopedZip(params, args, nv) ==
    IF params = <<>> \/ args = <<>> THEN nv
    ELSE ScopedZip(Tail(params), Tail(args),
                   [id |-> nv.id,
                    st |-> SetVar(nv.st, nv.id, Head(params).name, Head(args))])

RECURSIVE ScopedDefaults(_, _, _)
\* new_vars[param.name] = eval_expr(param.default, ctx), d being what the
\* default gave
ScopedDefault(params, ctx, id, d) ==
    IF d.err # "" THEN d
    ELSE ScopedDefaults(Tail(params), ctx,
                        [id |-> id, st |-> SetVar(d.st, id, Head(params).name, d.val)])

\* for param in params[len(args):] (eval.py 343-346): val is <<new_vars>>
ScopedDefaults(params, ctx, nv) ==
    IF params = <<>> THEN Ok(<<nv.id>>, nv.st)
    ELSE IF Head(params).default.type = "NoExpr" THEN Fail("XFDY0002", nv.st)
    ELSE ScopedDefault(params, ctx, nv.id, eval_scoped(Head(params).default, ctx, nv.st))

\* new_ctx and the body (eval.py 347-348), d holding new_vars
ScopedCallBody(func, ctx, d) ==
    IF d.err # "" THEN d
    ELSE ScopedBody(func.body,
            Enter(ctx, ctx.context_item, [id |-> d.val[1], st |-> d.st],
                  ctx.position, ctx.last))

\* The user-function branch of call_function (eval.py 334-348)
ScopedCallUser(func, args, ctx, st) ==
    IF Len(args) > Len(func.params) THEN Fail("XFDY0002", st)
    ELSE ScopedCallBody(func, ctx,
            ScopedDefaults(SubSeq(func.params, Len(args) + 1, Len(func.params)), ctx,
                           ScopedZip(func.params, args, CopyVars(st, ctx.variables))))

\* call_function(name, args, ctx): a user function, apply, or one of the
\* built-ins seq, concat, count, empty, head and tail, which evaluate
\* nothing; the other built-ins are called by call_function above and
\* not here.
ScopedCall(name, ctx, a) ==
    IF a.err # "" THEN a
    ELSE IF Dispatch(name, ctx) = "user"
    THEN ScopedCallUser(ctx.functions[name], a.val, ctx, a.st)
    ELSE IF name = N_apply /\ a.val # <<>>
    THEN ScopedApply(a.val[1],
            IF (IF Len(a.val) > 1 /\ a.val[2] # <<>>
                THEN to_string(a.st.heap, a.val[2]) ELSE S_main) \in DOMAIN ctx.rules
            THEN ctx.rules[IF Len(a.val) > 1 /\ a.val[2] # <<>>
                           THEN to_string(a.st.heap, a.val[2]) ELSE S_main]
            ELSE <<>>,
            ctx, <<>>, a.st)
    ELSE IF name = N_apply THEN Ok(<<>>, a.st)
    ELSE IF name \in {N_concat, N_seq} THEN Ok(Flatten(a.val), a.st)
    ELSE IF name = N_count THEN Ok(<<Num(Len(Arg0(a.val)))>>, a.st)
    ELSE IF name = N_empty THEN Ok(<<Bool(Arg0(a.val) = <<>>)>>, a.st)
    ELSE IF name = N_head
    THEN IF NoArg0(a.val) THEN Ok(<<>>, a.st) ELSE Ok(<<a.val[1][1]>>, a.st)
    ELSE IF name = N_tail
    THEN IF NoArg0(a.val) THEN Ok(<<>>, a.st) ELSE Ok(Tail(a.val[1]), a.st)
    ELSE Fail("XFST0003", a.st)

ScopedIf(expr, ctx, c) ==
    IF c.err # "" THEN c
    ELSE IF to_boolean(c.val) THEN eval_scoped(expr.then_expr, ctx, c.st)
    ELSE eval_scoped(expr.else_expr, ctx, c.st)

ScopedRight(expr, left, right) ==
    IF right.err # "" THEN right
    ELSE IF expr.op \in {"and", "or"} THEN Ok(<<Bool(to_boolean(right.val))>>, right.st)
    ELSE LET r == eval_binary(right.st.heap, expr.op, left.val, right.val)
         IN  IF r.err # "" THEN Fail(r.err, right.st) ELSE Ok(<<r.item>>, right.st)

\* The BinaryOp branch (eval.py 130-146), left being what expr.left gave
ScopedBinary(expr, ctx, left) ==
    IF left.err # "" THEN left
    ELSE IF expr.op = "and" /\ ~to_boolean(left.val) THEN Ok(<<Bool(FALSE)>>, left.st)
    ELSE IF expr.op = "or" /\ to_boolean(left.val) THEN Ok(<<Bool(TRUE)>>, left.st)
    ELSE ScopedRight(expr, left, eval_scoped(expr.right, ctx, left.st))

RECURSIVE ScopedPreds(_, _, _, _)
ScopedPredHolds(preds, cand, ctx, r) ==
    IF r.err # "" THEN r
    ELSE IF ~to_boolean(r.val) THEN Ok(<<Bool(FALSE)>>, r.st)
    ELSE ScopedPreds(Tail(preds), cand, ctx, r.st)

\* all(to_boolean(eval_expr(pred, Context(cand, dict(ctx.variables), ...)))
\* for pred in step.predicates) (eval.py 276-284)
ScopedPreds(preds, cand, ctx, st) ==
    IF preds = <<>> THEN Ok(<<Bool(TRUE)>>, st)
    ELSE ScopedPredHolds(preds, cand, ctx,
            ScopedBody(Head(preds), EnterDefault(ctx, NodeItem(cand), st)))

RECURSIVE ScopedFilter(_, _, _, _, _)
ScopedKeepIf(matched, step, ctx, out, r) ==
    IF r.err # "" THEN r
    ELSE ScopedFilter(Tail(matched), step, ctx,
                      IF r.val[1].n = 1 THEN Append(out, NodeItem(Head(matched))) ELSE out,
                      r.st)

\* for cand in matched
ScopedFilter(matched, step, ctx, out, st) ==
    IF matched = <<>> THEN Ok(out, st)
    ELSE ScopedKeepIf(matched, step, ctx, out,
                      ScopedPreds(step.predicates, Head(matched), ctx, st))

RECURSIVE ScopedStep(_, _, _, _, _)
ScopedNextItem(items, step, ctx, r) ==
    IF r.err # "" THEN r ELSE ScopedStep(Tail(items), step, ctx, r.val, r.st)

ScopedCandidates(items, step, ctx, out, st, c) ==
    ScopedNextItem(items, step, ctx,
        ScopedFilter(SelectSeq(c.ids, LAMBDA x : _matches_test(c.heap, x, step.test)),
                     step, ctx, out, [st EXCEPT !.heap = c.heap]))

\* apply_step: for item in items (eval.py 232-286)
ScopedStep(items, step, ctx, out, st) ==
    IF items = <<>> THEN Ok(out, st)
    ELSE IF ~isNode(Head(items)) THEN ScopedStep(Tail(items), step, ctx, out, st)
    ELSE ScopedCandidates(items, step, ctx, out, st,
                          Candidates(st.heap, Head(items).n, step))

RECURSIVE ScopedSteps(_, _, _, _)
ScopedNextStep(steps, ctx, r) ==
    IF r.err # "" THEN r ELSE ScopedSteps(r.val, Tail(steps), ctx, r.st)

\* for step in steps
ScopedSteps(current, steps, ctx, st) ==
    IF steps = <<>> THEN Ok(current, st)
    ELSE ScopedNextStep(steps, ctx, ScopedStep(current, Head(steps), ctx, <<>>, st))

\* eval_path (eval.py 190-212)
ScopedPath(expr, ctx, st) ==
    LET self == IF ctx.context_item.k # "none" THEN <<ctx.context_item>> ELSE <<>>
        kind == expr.start.kind
        bound == kind = "var" /\ expr.start.name \in DOMAIN st.dicts[ctx.variables]
        base == IF kind \in {"context", "desc"} THEN self
                ELSE IF kind \in {"root", "desc_root"}
                     THEN RootOf(st.heap, ctx.context_item)
                ELSE IF kind = "var"
                     THEN IF bound THEN st.dicts[ctx.variables][expr.start.name] ELSE self
                ELSE <<>>
        steps == IF kind = "var" /\ ~bound
                 THEN <<PathStep("child", StepTest("name", expr.start.name), <<>>)>>
                      \o expr.steps
                 ELSE expr.steps
    IN  ScopedSteps(base, steps, ctx, st)

\* eval_expr(expr, ctx) on mappings that are objects
eval_scoped(expr, ctx, st) ==
    IF expr.type = "IfExpr" THEN ScopedIf(expr, ctx, eval_scoped(expr.cond, ctx, st))
    ELSE IF expr.type = "LetExpr"
    THEN ScopedLet(expr, ctx, eval_scoped(expr.value, ctx, st))
    ELSE IF expr.type = "ForExpr"
    THEN LET s == eval_scoped(expr.seq, ctx, st)
         IN  IF s.err # "" THEN s ELSE ScopedFor(expr, ctx, s.val, 1, <<>>, s.st)
    ELSE IF expr.type = "MatchExpr"
    THEN LET t == eval_scoped(expr.target, ctx, st)
         IN  IF t.err # "" THEN t ELSE ScopedMatch(expr, ctx, t.val, 1, <<>>, t.st)
    ELSE IF expr.type = "FuncCall"
    THEN ScopedCall(expr.name, ctx, ScopedArgs(expr.args, ctx, <<>>, st))
    ELSE IF expr.type = "BinaryOp"
    THEN ScopedBinary(expr, ctx, eval_scoped(expr.left, ctx, st))
    ELSE IF expr.type = "PathExpr" THEN ScopedPath(expr, ctx, st)
    ELSE IF expr.type = "UnaryOp"
    THEN ScopedUnary(expr, eval_scoped(expr.expr, ctx, st))
    ELSE ScopedAtom(expr, ctx, st)

\* ------------------------------------------------------------ lexer

\* Source text is a str; pos is the offset Python counts from 0.
Ch(text, pos) == text[pos + 1]

\* text[a:b]
Slice(text, a, b) == SubSeq(text, a + 1, IF b < Len(text) THEN b ELSE Len(text))

IsSpace(c) == c \in {" ", "\n", "\t", "\r"}

LowerChars ==
    <<"a", "b", "c", "d", "e", "f", "g", "h", "i", "j", "k", "l", "m", "n", "o",
      "p", "q", "r", "s", "t", "u", "v", "w", "x", "y", "z">>

UpperChars ==
    <<"A", "B", "C", "D", "E", "F", "G", "H", "I", "J", "K", "L", "M", "N", "O",
      "P", "Q", "R", "S", "T", "U", "V", "W", "X", "Y", "Z">>

\* The position of c in chars, 0 when it is not there.
IndexIn(chars, c) ==
    IF \E i \in 1..Len(chars) : chars[i] = c
    THEN CHOOSE i \in 1..Len(chars) : chars[i] = c
    ELSE 0

IsAlpha(c) == IndexIn(LowerChars, c) > 0 \/ IndexIn(UpperChars, c) > 0

\* c.isalnum() or c in "_-"
IsNameChar(c) == IsAlpha(c) \/ IsDigit(c) \/ c \in {"_", "-"}

W_xform == <<"x", "f", "o", "r", "m">>

W_version == <<"v", "e", "r", "s", "i", "o", "n">>

W_import == <<"i", "m", "p", "o", "r", "t">>

W_as == <<"a", "s">>

W_ns == <<"n", "s">>

W_def == <<"d", "e", "f">>

W_var == <<"v", "a", "r">>

W_let == <<"l", "e", "t">>

W_in == <<"i", "n">>

W_for == <<"f", "o", "r">>

W_where == <<"w", "h", "e", "r", "e">>

W_return == <<"r", "e", "t", "u", "r", "n">>

W_if == <<"i", "f">>

W_then == <<"t", "h", "e", "n">>

W_else == <<"e", "l", "s", "e">>

W_match == <<"m", "a", "t", "c", "h">>

W_case == <<"c", "a", "s", "e">>

W_default == <<"d", "e", "f", "a", "u", "l", "t">>

W_and == <<"a", "n", "d">>

W_or == <<"o", "r">>

W_not == <<"n", "o", "t">>

W_div == <<"d", "i", "v">>

W_mod == <<"m", "o", "d">>

W_rule == <<"r", "u", "l", "e">>

KEYWORDS ==
    {W_xform, W_version, W_import, W_as, W_ns, W_def, W_var, W_let, W_in, W_for,
     W_where, W_return, W_if, W_then, W_else, W_match, W_case, W_default, W_and,
     W_or, W_not, W_div, W_mod, W_rule}

Token(kind, value, pos) == [kind |-> kind, value |-> value, pos |-> pos]

\* The empty _buffer.
NoToken == Token("NONE", <<>>, 0)

\* An exception raised where a token was asked for.
Raised(type, pos) == Token("ERR", <<type>>, pos)

\* What _next_token leaves: the token and the lexer's pos behind it.
Lexed(tok, pos) == [tok |-> tok, pos |-> pos]

RECURSIVE LineEnd(_, _)
\* while self.pos < len(text) and text[self.pos] != "\n": self.pos += 1
LineEnd(text, pos) ==
    IF pos < Len(text) /\ Ch(text, pos) # "\n" THEN LineEnd(text, pos + 1) ELSE pos

RECURSIVE _skip_ws_comments(_, _)
_skip_ws_comments(text, pos) ==
    IF pos >= Len(text) THEN pos
    ELSE IF IsSpace(Ch(text, pos)) THEN _skip_ws_comments(text, pos + 1)
    ELSE IF Ch(text, pos) = "#" THEN _skip_ws_comments(text, LineEnd(text, pos))
    ELSE pos

\* The letters among the hex digits are the first HexLetters of the alphabet.
HexLetters == 6

IsHexLetter(c) ==
    IndexIn(LowerChars, c) \in 1..HexLetters \/ IndexIn(UpperChars, c) \in 1..HexLetters

IsHex(c) == IsDigit(c) \/ IsHexLetter(c)

HexVal(c) ==
    IF IsDigit(c) THEN DigitVal(c)
    ELSE Len(DigitChar) - 1 + IndexIn(LowerChars, c) + IndexIn(UpperChars, c)

HexBase == Len(DigitChar) + HexLetters

RECURSIVE HexDigitsVal(_, _)
\* The value of hex digits, underscores skipped.
HexDigitsVal(s, acc) ==
    IF s = <<>> THEN acc
    ELSE IF Head(s) = "_" THEN HexDigitsVal(Tail(s), acc)
    ELSE HexDigitsVal(Tail(s), acc * HexBase + HexVal(Head(s)))

RECURSIVE StripWs(_)
\* s.strip()
StripWs(s) ==
    IF s # <<>> /\ IsSpace(Head(s)) THEN StripWs(Tail(s))
    ELSE IF s # <<>> /\ IsSpace(s[Len(s)]) THEN StripWs(SubSeq(s, 1, Len(s) - 1))
    ELSE s

\* int(s, 16): [ok, n].  Surrounding whitespace is stripped; one sign and a
\* 0x prefix are accepted; the digits are hex digits, a single underscore
\* allowed between two of them and between the prefix and the first.
IntHex(s) ==
    LET t == StripWs(s)
        signed == t # <<>> /\ Head(t) \in {"-", "+"}
        u == IF signed THEN Tail(t) ELSE t
        prefixed == Len(u) >= 2 /\ u[1] = "0" /\ u[2] \in {"x", "X"}
        body == IF prefixed THEN SubSeq(u, 3, Len(u)) ELSE u
        wellFormed ==
            /\ body # <<>>
            /\ \A i \in 1..Len(body) : IsHex(body[i]) \/ body[i] = "_"
            /\ body[Len(body)] # "_"
            /\ prefixed \/ body[1] # "_"
            /\ \A i \in 1..(Len(body) - 1) : ~(body[i] = "_" /\ body[i + 1] = "_")
    IN  IF wellFormed
        THEN [ok |-> TRUE,
              n |-> IF signed /\ Head(t) = "-" THEN -HexDigitsVal(body, 0)
                    ELSE HexDigitsVal(body, 0)]
        ELSE [ok |-> FALSE, n |-> 0]

\* ord("0"), ord("A"), ord("a"), ord(" ")
OrdZero == 48

OrdA == 65

OrdLowerA == 97

OrdSpace == 32

\* chr(n) for n >= 0: the character where it is a digit, a letter or the
\* blank; one stand-in for every other character.
Chr(n) ==
    IF n \in OrdZero..(OrdZero + Len(DigitChar) - 1) THEN DigitChar[n - OrdZero + 1]
    ELSE IF n \in OrdA..(OrdA + Len(UpperChars) - 1) THEN UpperChars[n - OrdA + 1]
    ELSE IF n \in OrdLowerA..(OrdLowerA + Len(LowerChars) - 1)
    THEN LowerChars[n - OrdLowerA + 1]
    ELSE IF n = OrdSpace THEN " "
    ELSE "\\u"

\* What an escape sequence appends: [ok, c].  esc is the character behind the
\* backslash, hexval the four characters behind that.
Escaped(esc, hexval) ==
    CASE esc = "n" -> [ok |-> TRUE, c |-> "\n"]
      [] esc = "t" -> [ok |-> TRUE, c |-> "\t"]
      [] esc = "r" -> [ok |-> TRUE, c |-> "\r"]
      [] esc = "u" ->
            IF IntHex(hexval).ok /\ IntHex(hexval).n >= 0
            THEN [ok |-> TRUE, c |-> Chr(IntHex(hexval).n)]
            ELSE [ok |-> FALSE, c |-> ""]
      [] OTHER -> [ok |-> TRUE, c |-> esc]

RECURSIVE LexString(_, _, _, _, _)
\* The string literal loop of _next_token, self.pos at pos.
LexString(text, quote, start, pos, out) ==
    IF pos >= Len(text) THEN Lexed(Raised("SyntaxError", start), pos)
    ELSE IF Ch(text, pos) = "\\"
    THEN IF pos + 1 >= Len(text) THEN Lexed(Raised("SyntaxError", start), pos + 1)
         ELSE IF ~Escaped(Ch(text, pos + 1), Slice(text, pos + 2, pos + 6)).ok
         THEN Lexed(Raised("ValueError", start), pos + 1)
         ELSE LexString(text, quote, start,
                        IF Ch(text, pos + 1) = "u" THEN pos + 6 ELSE pos + 2,
                        Append(out, Escaped(Ch(text, pos + 1),
                                            Slice(text, pos + 2, pos + 6)).c))
    ELSE IF Ch(text, pos) = quote THEN Lexed(Token("STRING", out, start), pos + 1)
    ELSE LexString(text, quote, start, pos + 1, Append(out, Ch(text, pos)))

RECURSIVE NumberEnd(_, _)
\* while self.pos < len(text) and (text[self.pos].isdigit() or == "."): += 1
NumberEnd(text, pos) ==
    IF pos < Len(text) /\ (IsDigit(Ch(text, pos)) \/ Ch(text, pos) = ".")
    THEN NumberEnd(text, pos + 1)
    ELSE pos

RECURSIVE NameEnd(_, _)
\* The identifier loop of _next_token: a ":" belongs to the name when a name
\* character follows it.
NameEnd(text, pos) ==
    IF pos >= Len(text) THEN pos
    ELSE IF Ch(text, pos) = ":"
    THEN IF pos + 1 < Len(text) /\ IsNameChar(Ch(text, pos + 1))
         THEN NameEnd(text, pos + 1)
         ELSE pos
    ELSE IF ~IsNameChar(Ch(text, pos)) THEN pos
    ELSE NameEnd(text, pos + 1)

\* _next_token behind the whitespace, self.pos at pos < len(text).
TokenAt(text, pos) ==
    LET ch == Ch(text, pos)
    IN  IF ch = ":" /\ pos + 1 < Len(text) /\ Ch(text, pos + 1) = "="
        THEN Lexed(Token("OP", <<":", "=">>, pos), pos + 2)
        ELSE IF ch \in {"(", ")", "{", "}", "[", "]", ",", ":", ";"}
        THEN Lexed(Token("PUNCT", <<ch>>, pos), pos + 1)
        ELSE IF ch = "."
        THEN IF Slice(text, pos, pos + 2) = <<".", ".">>
             THEN Lexed(Token("DOT", <<".", ".">>, pos), pos + 2)
             ELSE IF Slice(text, pos, pos + 3) = <<".", "/", "/">>
             THEN Lexed(Token("DOT", <<".", "/", "/">>, pos), pos + 3)
             ELSE Lexed(Token("DOT", <<".">>, pos), pos + 1)
        ELSE IF ch = "/"
        THEN IF Slice(text, pos, pos + 2) = <<"/", "/">>
             THEN Lexed(Token("SLASH", <<"/", "/">>, pos), pos + 2)
             ELSE Lexed(Token("SLASH", <<"/">>, pos), pos + 1)
        ELSE IF ch \in {"<", ">", "=", "!", "+", "-", "*"}
        THEN IF pos + 1 < Len(text) /\ Ch(text, pos + 1) = "="
             THEN Lexed(Token("OP", <<ch, "=">>, pos), pos + 2)
             ELSE Lexed(Token("OP", <<ch>>, pos), pos + 1)
        ELSE IF ch \in {"'", "\""} THEN LexString(text, ch, pos, pos + 1, <<>>)
        ELSE IF IsDigit(ch)
        THEN Lexed(Token("NUMBER", Slice(text, pos, NumberEnd(text, pos)), pos),
                   NumberEnd(text, pos))
        ELSE IF IsAlpha(ch) \/ ch = "_"
        THEN Lexed(Token(IF Slice(text, pos, NameEnd(text, pos)) \in KEYWORDS
                         THEN "KW" ELSE "IDENT",
                         Slice(text, pos, NameEnd(text, pos)), pos),
                   NameEnd(text, pos))
        ELSE IF ch = "@" THEN Lexed(Token("AT", <<"@">>, pos), pos + 1)
        ELSE Lexed(Raised("SyntaxError", pos), pos)

\* Lexer._next_token with self.pos at pos
_next_token(text, pos) ==
    IF _skip_ws_comments(text, pos) >= Len(text)
    THEN Lexed(Token("EOF", <<>>, _skip_ws_comments(text, pos)),
               _skip_ws_comments(text, pos))
    ELSE TokenAt(text, _skip_ws_comments(text, pos))

\* ------------------------------------------------------------ parser

\* What a parsing method leaves: the value it returns and the lexer behind
\* it, or the type of the exception it raises ("XFST0005" is the
\* SyntaxError carrying that code).
Parsed(val, lx) == [err |-> "", val |-> val, lx |-> lx]

Raise(type) == [err |-> type, val |-> <<>>, lx |-> [pos |-> 0, buffer |-> NoToken]]

\* The statements the parsing methods are made of: an expect, a call of a
\* parsing method, and a method called when the next token is (kind, value).
Expect(kind, value) == [do |-> "expect", kind |-> kind, value |-> value, inner |-> ""]

Call(method) == [do |-> method, kind |-> "", value |-> <<>>, inner |-> ""]

\* A call with an argument: _parse_path(start), _parse_func_call(name)
CallWith(method, arg) == [do |-> method, kind |-> "", value |-> arg, inner |-> ""]

Optional(kind, value, method) ==
    [do |-> "optional", kind |-> kind, value |-> value, inner |-> method]

\* A number with a fraction: frac is the digits behind the point, the
\* trailing zeros dropped.
Float(n, frac) == [k |-> "num", n |-> n, s |-> frac, m |-> <<>>]

RECURSIVE DropZeros(_)
DropZeros(s) ==
    IF s # <<>> /\ s[Len(s)] = "0" THEN DropZeros(SubSeq(s, 1, Len(s) - 1)) ELSE s

\* The places of "." in a NUMBER token.
Points(s) == {i \in 1..Len(s) : s[i] = "."}

\* float(s) of a NUMBER token, digits and points behind a digit: [ok, item];
\* not ok is the ValueError of a second point.
FloatOf(s) ==
    IF Cardinality(Points(s)) > 1 THEN [ok |-> FALSE, item |-> Num(0)]
    ELSE IF Points(s) = {} THEN [ok |-> TRUE, item |-> Num(DigitsVal(s, 0))]
    ELSE LET p == CHOOSE i \in Points(s) : TRUE
         IN  [ok |-> TRUE,
              item |-> Float(DigitsVal(SubSeq(s, 1, p - 1), 0),
                             DropZeros(SubSeq(s, p + 1, Len(s))))]

\* Param with its type_ref
TypedParam(name, type_ref, default) ==
    [name |-> name, type_ref |-> type_ref, default |-> default]

\* expr is NoExpr when the module has none; imports are <<iri, alias>>
Module(functions, rules, vars_decl, namespaces, imports, expr) ==
    [functions |-> functions, rules |-> rules, vars |-> vars_decl,
     namespaces |-> namespaces, imports |-> imports, expr |-> expr]

\* The binary operators by precedence, loosest first, as (token kind, token
\* value, BinaryOp.op).
\* The levels with + and - binding tighter than * div mod
Levels_addBelowMul ==
    <<{<<"KW", W_or, "or">>},
      {<<"KW", W_and, "and">>},
      {<<"OP", <<"=">>, "=">>, <<"OP", <<"!", "=">>, "!=">>},
      {<<"OP", <<"<">>, "<">>, <<"OP", <<"<", "=">>, "<=">>, <<"OP", <<">">>, ">">>,
       <<"OP", <<">", "=">>, ">=">>},
      {<<"OP", <<"*">>, "*">>, <<"KW", W_div, "div">>, <<"KW", W_mod, "mod">>},
      {<<"OP", <<"+">>, "+">>, <<"OP", <<"-">>, "-">>}>>

Levels ==
    <<{<<"KW", W_or, "or">>},
      {<<"KW", W_and, "and">>},
      {<<"OP", <<"=">>, "=">>, <<"OP", <<"!", "=">>, "!=">>},
      {<<"OP", <<"<">>, "<">>, <<"OP", <<"<", "=">>, "<=">>, <<"OP", <<">">>, ">">>,
       <<"OP", <<">", "=">>, ">=">>},
      {<<"OP", <<"+">>, "+">>, <<"OP", <<"-">>, "-">>},
      {<<"OP", <<"*">>, "*">>, <<"KW", W_div, "div">>, <<"KW", W_mod, "mod">>}>>

\* The operator of a level that tok is, as a set: empty when it is none.
LevelOp(level, tok) == {o \in Levels[level] : o[1] = tok.kind /\ o[2] = tok.value}

\* The kind tests: the token value and the kind it names.
S_comment == <<"c", "o", "m", "m", "e", "n", "t">>

S_pi == <<"p", "i">>

Kinds ==
    {<<N_text, "text">>, <<S_node, "node">>, <<S_comment, "comment">>, <<S_pi, "pi">>}

KindOf(value) == (CHOOSE kd \in Kinds : kd[1] = value)[2]

IsKind(value, kinds) == \E kd \in Kinds : kd[1] = value /\ kd[2] \in kinds

Is(tok, kind, value) == tok.kind = kind /\ tok.value = value

RECURSIVE Run(_, _, _, _)
RECURSIVE RunStep(_, _, _)

\* A Lexer: pos and _buffer (the text is passed alongside).
Lexer(pos, buffer) == [pos |-> pos, buffer |-> buffer]

\* The lexer with _buffer filled from _next_token
Lex(text, lx) == Lexer(_next_token(text, lx.pos).pos, _next_token(text, lx.pos).tok)

\* The lexer once peek has filled _buffer.
Peeked(text, lx) ==
    IF lx.buffer = NoToken THEN RunStep(text, lx, Call("lex")) ELSE lx

\* Lexer.peek: the token.
peek(text, lx) == Peeked(text, lx).buffer

\* Lexer.next: the lexer behind the token peek gives.
Advance(text, lx) == Lexer(Peeked(text, lx).pos, NoToken)

\* Lexer.next: [tok, lx]
next(text, lx) ==
    IF lx.buffer # NoToken
    THEN [tok |-> lx.buffer, lx |-> Lexer(lx.pos, NoToken)]
    ELSE [tok |-> _next_token(text, lx.pos).tok,
          lx |-> Lexer(_next_token(text, lx.pos).pos, NoToken)]

RECURSIVE LexerCalls(_, _, _, _)
\* The call made, r being [tok, lx] of it; a raise ends the calls
LexerCall(text, calls, out, r) ==
    IF r.tok.kind = "ERR" THEN Append(out, r.tok)
    ELSE LexerCalls(text, r.lx, Tail(calls), Append(out, r.tok))

\* The tokens that calls of peek and next, made one after another on a
\* Lexer, return
LexerCalls(text, lx, calls, out) ==
    IF calls = <<>> THEN out
    ELSE IF Head(calls) = "peek"
    THEN LexerCall(text, calls, out, [tok |-> peek(text, lx), lx |-> Peeked(text, lx)])
    ELSE LexerCall(text, calls, out, next(text, lx))

\* Lexer.expect, tok the token next gives
ExpectTok(text, lx, tok, kind, value) ==
    IF tok.kind = "ERR" THEN Raise(tok.value[1])
    ELSE IF tok.kind # kind \/ (value # NoneStr /\ tok.value # value)
    THEN Raise("SyntaxError")
    ELSE Parsed(tok.value, Advance(text, lx))

\* Lexer.expect(kind, value): value NoneStr for None; val is the token's value
expect(text, lx, kind, value) == ExpectTok(text, lx, peek(text, lx), kind, value)

\* r (a list of values) reduced to its i-th value
Pick(r, i) == IF r.err # "" THEN r ELSE Parsed(r.val[i], r.lx)

\* The statement behind an Optional's token, or None
OptionalTok(text, lx, step, tok) ==
    IF tok.kind = "ERR" THEN Raise(tok.value[1])
    ELSE IF Is(tok, step.kind, step.value)
    THEN RunStep(text, Advance(text, lx), Call(step.inner))
    ELSE Parsed(IF step.inner = "expr" THEN NoExpr ELSE NoneStr, lx)

\* _parse_qname
_parse_qname(text, lx) == expect(text, lx, "IDENT", NoneStr)

\* _parse_type_ref: the name of a built-in type, or a qname
_parse_type_ref(text, lx) ==
    IF peek(text, lx).kind = "IDENT"
       /\ peek(text, lx).value \in {N_string, N_number, N_boolean, S_null, S_map}
    THEN Parsed(peek(text, lx).value, Advance(text, lx))
    ELSE _parse_qname(text, lx)

RECURSIVE ListItem(_, _, _, _)

\* More items of a comma-separated list, tok the token behind an item
ListMore(text, method, acc, lx, tok) ==
    IF tok.kind = "ERR" THEN Raise(tok.value[1])
    ELSE IF Is(tok, "PUNCT", <<",">>)
    THEN ListItem(text, method, acc, RunStep(text, Advance(text, lx), Call(method)))
    ELSE Parsed(acc, lx)

\* r is the item just parsed
ListItem(text, method, acc, r) ==
    IF r.err # "" THEN r
    ELSE ListMore(text, method, Append(acc, r.val), r.lx, peek(text, r.lx))

\* The arguments of a call, the parameters of a def: empty before ")"
ListTok(text, lx, method, tok) ==
    IF tok.kind = "ERR" THEN Raise(tok.value[1])
    ELSE IF Is(tok, "PUNCT", <<")">>) THEN Parsed(<<>>, lx)
    ELSE ListItem(text, method, <<>>, RunStep(text, lx, Call(method)))

ParamOf(r) ==
    IF r.err # "" THEN r ELSE Parsed(TypedParam(r.val[1], r.val[2], r.val[3]), r.lx)

_parse_param(text, lx) ==
    ParamOf(Run(text, lx,
                <<Expect("IDENT", NoneStr), Optional("PUNCT", <<":">>, "type_ref"),
                  Optional("OP", <<":", "=">>, "expr")>>, <<>>))

IfOf(r) ==
    IF r.err # "" THEN r ELSE Parsed(IfExpr(r.val[2], r.val[4], r.val[6]), r.lx)

_parse_if(text, lx) ==
    IfOf(Run(text, lx,
             <<Expect("KW", W_if), Call("expr"), Expect("KW", W_then), Call("expr"),
               Expect("KW", W_else), Call("expr")>>, <<>>))

LetOf(r) ==
    IF r.err # "" THEN r ELSE Parsed(LetExpr(r.val[2], r.val[4], r.val[6]), r.lx)

_parse_let(text, lx) ==
    LetOf(Run(text, lx,
              <<Expect("KW", W_let), Expect("IDENT", NoneStr),
                Expect("OP", <<":", "=">>), Call("expr"), Expect("KW", W_in),
                Call("expr")>>, <<>>))

ForOf(r) ==
    IF r.err # "" THEN r
    ELSE Parsed(ForExpr(r.val[2], r.val[4], r.val[5], r.val[7]), r.lx)

_parse_for(text, lx) ==
    ForOf(Run(text, lx,
              <<Expect("KW", W_for), Expect("IDENT", NoneStr), Expect("KW", W_in),
                Call("expr"), Optional("KW", W_where, "expr"),
                Expect("KW", W_return), Call("expr")>>, <<>>))

RECURSIVE MatchCases(_, _, _, _)

\* r is a case just parsed
CaseAdd(text, target, cases, r) ==
    IF r.err # "" THEN r
    ELSE MatchCases(text, r.lx, target, Append(cases, <<r.val[2], r.val[5]>>))

\* r is the default just parsed
DefaultOf(target, cases, r) ==
    IF r.err # "" THEN r ELSE Parsed(MatchExpr(target, cases, r.val[4]), r.lx)

MatchTok(text, lx, target, cases, tok) ==
    IF tok.kind = "ERR" THEN Raise(tok.value[1])
    ELSE IF Is(tok, "KW", W_case)
    THEN CaseAdd(text, target, cases,
                   Run(text, lx,
                       <<Expect("KW", W_case), Call("pattern"), Expect("OP", <<"=">>),
                         Expect("OP", <<">">>), Call("expr"),
                         Expect("PUNCT", <<";">>)>>, <<>>))
    ELSE IF Is(tok, "KW", W_default)
    THEN DefaultOf(target, cases,
                      Run(text, lx,
                          <<Expect("KW", W_default), Expect("OP", <<"=">>),
                            Expect("OP", <<">">>), Call("expr"),
                            Expect("PUNCT", <<";">>)>>, <<>>))
    ELSE Parsed(MatchExpr(target, cases, NoExpr), lx)

\* The while loop of _parse_match
MatchCases(text, lx, target, cases) ==
    MatchTok(text, lx, target, cases, peek(text, lx))

MatchHead(text, r) ==
    IF r.err # "" THEN r ELSE MatchCases(text, r.lx, r.val[2], <<>>)

_parse_match(text, lx) ==
    MatchHead(text, Run(text, lx,
                        <<Expect("KW", W_match), Call("expr"),
                          Expect("PUNCT", <<":">>)>>, <<>>))

RECURSIVE ParseLevel(_, _, _)
RECURSIVE LevelLoop(_, _, _)

\* r is the right operand
LevelRight(text, level, left, bop, r) ==
    IF r.err # "" THEN r
    ELSE LevelLoop(text, level, Parsed(BinaryOp(bop, left, r.val), r.lx))

LevelTok(text, level, r, tok) ==
    IF tok.kind = "ERR" THEN Raise(tok.value[1])
    ELSE IF LevelOp(level, tok) # {}
    THEN LevelRight(text, level, r.val, (CHOOSE o \in LevelOp(level, tok) : TRUE)[3],
                    ParseLevel(text, Advance(text, r.lx), level + 1))
    ELSE r

\* The while loop of _parse_or ... _parse_mul, r the expr so far
LevelLoop(text, level, r) ==
    IF r.err # "" THEN r ELSE LevelTok(text, level, r, peek(text, r.lx))

\* _parse_or, _parse_and, _parse_eq, _parse_rel, _parse_add, _parse_mul are
\* levels 1 to 6; the operand of the last is _parse_unary
ParseLevel(text, lx, level) ==
    IF level > Len(Levels) THEN RunStep(text, lx, Call("unary"))
    ELSE LevelLoop(text, level, ParseLevel(text, lx, level + 1))

_parse_or(text, lx) == ParseLevel(text, lx, 1)

ExprTok(text, lx, tok) ==
    IF tok.kind = "ERR" THEN Raise(tok.value[1])
    ELSE IF Is(tok, "KW", W_if) THEN _parse_if(text, lx)
    ELSE IF Is(tok, "KW", W_let) THEN _parse_let(text, lx)
    ELSE IF Is(tok, "KW", W_for) THEN _parse_for(text, lx)
    ELSE IF Is(tok, "KW", W_match) THEN _parse_match(text, lx)
    ELSE _parse_or(text, lx)

parse_expr(text, lx) == ExprTok(text, lx, peek(text, lx))

UnaryOf(uop, r) == IF r.err # "" THEN r ELSE Parsed(UnaryOp(uop, r.val), r.lx)

UnaryTok(text, lx, tok) ==
    IF tok.kind = "ERR" THEN Raise(tok.value[1])
    ELSE IF Is(tok, "OP", <<"-">>)
    THEN UnaryOf("-", RunStep(text, Advance(text, lx), Call("unary")))
    ELSE IF Is(tok, "KW", W_not)
    THEN UnaryOf("not", RunStep(text, Advance(text, lx), Call("unary")))
    ELSE RunStep(text, lx, Call("primary"))

_parse_unary(text, lx) == UnaryTok(text, lx, peek(text, lx))

FuncCallOf(name, r) ==
    IF r.err # "" THEN r ELSE Parsed(FuncCall(name, r.val[2]), r.lx)

_parse_func_call(text, lx, name) ==
    FuncCallOf(name, Run(text, lx,
                         <<Expect("PUNCT", <<"(">>), Call("args"),
                           Expect("PUNCT", <<")">>)>>, <<>>))

\* _path_continues, tok the token peek gives
_path_continues(tok) == tok.kind \in {"SLASH", "DOT", "AT"}

\* The IDENT branch of _parse_primary, tok the token behind the name
NameTok(text, lx, name, tok) ==
    IF tok.kind = "ERR" THEN Raise(tok.value[1])
    ELSE IF Is(tok, "PUNCT", <<"(">>) THEN RunStep(text, lx, CallWith("func_call", name))
    ELSE IF _path_continues(tok)
    THEN RunStep(text, lx, CallWith("path", PathStart("var", name)))
    ELSE Parsed(VarRef(name), lx)

TextConstructorOf(r) ==
    IF r.err # "" THEN r ELSE Parsed(TextConstructor(r.val[2]), r.lx)

\* self.lexer.pos = saved_pos with the buffer left as the lookahead filled it
Restore_posOnly(lx, saved) == Lexer(saved.pos, lx.buffer)

\* self.lexer.pos = saved_pos; self.lexer._buffer = saved_buf
Restore(lx, saved) == Lexer(saved.pos, saved.buffer)

\* The IDENT branch of _parse_primary on the lexer restored:
\* name = self.lexer.next().value
TextName(text, lx) ==
    NameTok(text, Advance(text, lx), peek(text, lx).value, peek(text, Advance(text, lx)))

\* The text branch of _parse_primary, lx behind `text`, tok the token there,
\* saved the lexer as it was before `text` was taken
TextTok(text, lx, saved, tok) ==
    IF tok.kind = "ERR" THEN Raise(tok.value[1])
    ELSE IF Is(tok, "PUNCT", <<"{">>)
    THEN TextConstructorOf(Run(text, lx,
                               <<Expect("PUNCT", <<"{">>), Call("expr"),
                                 Expect("PUNCT", <<"}">>)>>, <<>>))
    ELSE TextName(text, Restore(Peeked(text, lx), saved))

\* The start of a path without a start given, tok its first token
PathStartOf(tok) ==
    IF tok.kind = "DOT"
    THEN IF tok.value = <<".", "/", "/">> THEN PathStart("desc", NoneStr)
         ELSE PathStart("context", NoneStr)
    ELSE IF tok.value = <<"/", "/">> THEN PathStart("desc_root", NoneStr)
    ELSE PathStart("root", NoneStr)

PrimaryTok(text, lx, tok) ==
    IF tok.kind = "ERR" THEN Raise(tok.value[1])
    ELSE IF tok.kind = "NUMBER"
    THEN IF FloatOf(tok.value).ok
         THEN Parsed(Literal(FloatOf(tok.value).item), Advance(text, lx))
         ELSE Raise("ValueError")
    ELSE IF tok.kind = "STRING" THEN Parsed(Literal(Str(tok.value)), Advance(text, lx))
    ELSE IF Is(tok, "PUNCT", <<"(">>)
    THEN Pick(Run(text, lx,
                  <<Expect("PUNCT", <<"(">>), Call("expr"), Expect("PUNCT", <<")">>)>>,
                  <<>>), 2)
    ELSE IF Is(tok, "IDENT", N_text)
    THEN TextTok(text, Advance(text, lx), Peeked(text, lx),
                 peek(text, Advance(text, lx)))
    ELSE IF Is(tok, "OP", <<"<">>) THEN RunStep(text, lx, Call("constructor"))
    ELSE IF tok.kind \in {"DOT", "SLASH"}
    THEN RunStep(text, Advance(text, lx), CallWith("path", PathStartOf(tok)))
    ELSE IF tok.kind = "IDENT"
    THEN NameTok(text, Advance(text, lx), tok.value, peek(text, Advance(text, lx)))
    ELSE Raise("SyntaxError")

_parse_primary(text, lx) == PrimaryTok(text, lx, peek(text, lx))

RECURSIVE PathLoop(_, _, _, _)

\* r is the step just parsed
PathAdd(text, start, steps, r) ==
    IF r.err # "" THEN r ELSE PathLoop(text, r.lx, start, Append(steps, r.val))

AttrStepOf(r) ==
    IF r.err # "" THEN r
    ELSE Parsed(PathStep("attr", StepTest("name", r.val), <<>>), r.lx)

\* The step behind an @ that is consumed
AttrStep(text, lx) == AttrStepOf(_parse_qname(text, Advance(text, lx)))

TestStepOf(axis, r) ==
    IF r.err # "" THEN r ELSE Parsed(PathStep(axis, r.val[1], r.val[2]), r.lx)

\* A step of a step test and its predicates
TestStep(text, lx, axis) ==
    TestStepOf(axis, Run(text, lx, <<Call("step_test"), Call("predicates")>>, <<>>))

\* Behind a slash, tok the token there
SlashTok(text, lx, axis, tok) ==
    IF tok.kind = "ERR" THEN Raise(tok.value[1])
    ELSE IF tok.kind = "AT" THEN AttrStep(text, lx)
    ELSE TestStep(text, lx, axis)

\* Behind a ".", tok the token there
DotTok(text, lx, tok) ==
    IF tok.kind = "ERR" THEN Raise(tok.value[1])
    ELSE IF tok.kind = "AT" THEN AttrStep(text, lx)
    ELSE Parsed(PathStep("self", StepTest("node", NoneStr), <<>>), lx)

PathLoopTok(text, lx, start, steps, tok) ==
    IF tok.kind = "ERR" THEN Raise(tok.value[1])
    ELSE IF tok.kind = "SLASH"
    THEN PathAdd(text, start, steps,
                 SlashTok(text, Advance(text, lx),
                          IF tok.value = <<"/">> THEN "child" ELSE "desc",
                          peek(text, Advance(text, lx))))
    ELSE IF Is(tok, "DOT", <<".">>)
    THEN PathAdd(text, start, steps,
                 DotTok(text, Advance(text, lx), peek(text, Advance(text, lx))))
    ELSE IF Is(tok, "DOT", <<".", ".">>)
    THEN PathAdd(text, start, steps,
                 Parsed(PathStep("parent", StepTest("node", NoneStr), <<>>),
                        Advance(text, lx)))
    ELSE IF tok.kind = "AT" THEN PathAdd(text, start, steps, AttrStep(text, lx))
    ELSE Parsed(PathExpr(start, steps), lx)

\* The while loop of _parse_path
PathLoop(text, lx, start, steps) ==
    PathLoopTok(text, lx, start, steps, peek(text, lx))

\* The step a path may have before the loop, tok the token behind the start
PathFirstTok(text, lx, start, tok) ==
    IF tok.kind = "ERR" THEN Raise(tok.value[1])
    ELSE IF start.kind \in {"root", "context", "var"}
    THEN IF tok.kind = "AT" THEN PathAdd(text, start, <<>>, AttrStep(text, lx))
         ELSE IF Is(tok, "OP", <<"*">>) \/ tok.kind = "IDENT"
         THEN PathAdd(text, start, <<>>, TestStep(text, lx, "child"))
         ELSE PathLoop(text, lx, start, <<>>)
    ELSE IF tok.kind \in {"IDENT", "OP"}
    THEN PathAdd(text, start, <<>>, TestStep(text, lx, "desc_or_self"))
    ELSE PathLoop(text, lx, start, <<>>)

\* _parse_path(start), the start token consumed where start was None
_parse_path(text, lx, start) == PathFirstTok(text, lx, start, peek(text, lx))

StepTestOf(kind, r) ==
    IF r.err # "" THEN r ELSE Parsed(StepTest(kind, NoneStr), r.lx)

StepTestTok(text, lx, tok) ==
    IF tok.kind = "ERR" THEN Raise(tok.value[1])
    ELSE IF Is(tok, "OP", <<"*">>)
    THEN Parsed(StepTest("wildcard", NoneStr), Advance(text, lx))
    ELSE IF tok.kind = "IDENT"
    THEN IF IsKind(tok.value, {"text", "node", "comment", "pi"})
         THEN StepTestOf(KindOf(tok.value),
                         Run(text, Advance(text, lx),
                             <<Expect("PUNCT", <<"(">>), Expect("PUNCT", <<")">>)>>,
                             <<>>))
         ELSE Parsed(StepTest("name", tok.value), Advance(text, lx))
    ELSE Raise("SyntaxError")

_parse_step_test(text, lx) == StepTestTok(text, lx, peek(text, lx))

RECURSIVE _parse_predicates(_, _, _)

\* r is the predicate just parsed
PredicateAdd(text, preds, r) ==
    IF r.err # "" THEN r ELSE _parse_predicates(text, r.lx, Append(preds, r.val[2]))

PredicatesTok(text, lx, preds, tok) ==
    IF tok.kind = "ERR" THEN Raise(tok.value[1])
    ELSE IF Is(tok, "PUNCT", <<"[">>)
    THEN PredicateAdd(text, preds,
                      Run(text, lx,
                          <<Expect("PUNCT", <<"[">>), Call("expr"),
                            Expect("PUNCT", <<"]">>)>>, <<>>))
    ELSE Parsed(preds, lx)

\* _parse_predicates, preds the predicates so far
_parse_predicates(text, lx, preds) == PredicatesTok(text, lx, preds, peek(text, lx))

AttributePatternOf(r) ==
    IF r.err # "" THEN r ELSE Parsed(AttributePattern(r.val[2]), r.lx)

TypedPatternOf(kind, r) ==
    IF r.err # "" THEN r ELSE Parsed(TypedPattern(kind), r.lx)

\* r is the closing > of an element pattern
ElementPatternOf(name, var, child, r) ==
    IF r.err # "" THEN r ELSE Parsed(ElementPattern(name, var, child), r.lx)

\* r is </ and the end name
ElementEnd(text, name, var, child, r) ==
    IF r.err # "" THEN r
    ELSE IF r.val[3] # name THEN Raise("SyntaxError")
    ELSE ElementPatternOf(name, var, child, expect(text, r.lx, "OP", <<">">>))

\* r is the {var} of an element pattern
ElementVar(text, name, r) ==
    IF r.err # "" THEN r
    ELSE ElementEnd(text, name, r.val[2], NoPattern,
                    Run(text, r.lx,
                        <<Expect("OP", <<"<">>), Expect("SLASH", <<"/">>),
                          Call("qname")>>, <<>>))

\* r is the child pattern of an element pattern
ElementChild(text, name, r) ==
    IF r.err # "" THEN r
    ELSE ElementEnd(text, name, NoneStr, r.val,
                    Run(text, r.lx,
                        <<Expect("OP", <<"<">>), Expect("SLASH", <<"/">>),
                          Call("qname")>>, <<>>))

\* The content of an element pattern, tok the token behind <name>
ElementTok(text, lx, name, tok) ==
    IF tok.kind = "ERR" THEN Raise(tok.value[1])
    ELSE IF Is(tok, "PUNCT", <<"{">>)
    THEN ElementVar(text, name,
                    Run(text, lx,
                        <<Expect("PUNCT", <<"{">>), Expect("IDENT", NoneStr),
                          Expect("PUNCT", <<"}">>)>>, <<>>))
    ELSE IF Is(tok, "OP", <<"<">>)
    THEN ElementChild(text, name, RunStep(text, lx, Call("pattern")))
    ELSE Raise("SyntaxError")

\* r is <name>
ElementHead(text, r) ==
    IF r.err # "" THEN r ELSE ElementTok(text, r.lx, r.val[2], peek(text, r.lx))

PatternTok(text, lx, tok) ==
    IF tok.kind = "ERR" THEN Raise(tok.value[1])
    ELSE IF tok.kind = "AT"
    THEN AttributePatternOf(Run(text, lx,
                                <<Expect("AT", NoneStr), Call("qname")>>, <<>>))
    ELSE IF tok.kind = "IDENT" /\ IsKind(tok.value, {"node", "text", "comment"})
    THEN TypedPatternOf(KindOf(tok.value),
                        Run(text, Advance(text, lx),
                            <<Expect("PUNCT", <<"(">>), Expect("PUNCT", <<")">>)>>,
                            <<>>))
    ELSE IF Is(tok, "IDENT", <<"_">>) THEN Parsed(WildcardPattern, Advance(text, lx))
    ELSE IF Is(tok, "OP", <<"<">>)
    THEN ElementHead(text, Run(text, lx,
                               <<Expect("OP", <<"<">>), Call("qname"),
                                 Expect("OP", <<">">>)>>, <<>>))
    ELSE Raise("SyntaxError")

_parse_pattern(text, lx) == PatternTok(text, lx, peek(text, lx))

RECURSIVE NameCharsEnd(_, _)
\* while pos < len(text) and (text[pos].isalnum() or text[pos] in "_:-"): pos += 1
NameCharsEnd(text, pos) ==
    IF pos < Len(text) /\ (IsNameChar(Ch(text, pos)) \/ Ch(text, pos) = ":")
    THEN NameCharsEnd(text, pos + 1)
    ELSE pos

RECURSIVE SpaceEnd(_, _)
\* while pos < len(text) and text[pos].isspace(): pos += 1
SpaceEnd(text, pos) ==
    IF pos < Len(text) /\ IsSpace(Ch(text, pos)) THEN SpaceEnd(text, pos + 1) ELSE pos

\* _read_end_tag with self.lexer.pos at pos: [err, name, pos]
_read_end_tag(text, pos) ==
    IF Slice(text, pos, pos + 2) # <<"<", "/">>
    THEN [err |-> "SyntaxError", name |-> <<>>, pos |-> pos]
    ELSE IF SpaceEnd(text, NameCharsEnd(text, pos + 2)) >= Len(text)
            \/ Ch(text, SpaceEnd(text, NameCharsEnd(text, pos + 2))) # ">"
    THEN [err |-> "SyntaxError", name |-> <<>>, pos |-> pos]
    ELSE [err |-> "", name |-> Slice(text, pos + 2, NameCharsEnd(text, pos + 2)),
          pos |-> SpaceEnd(text, NameCharsEnd(text, pos + 2)) + 1]

RECURSIVE ChardataEnd(_, _)
\* _parse_chardata with self.lexer.pos at pos: where it stops
ChardataEnd(text, pos) ==
    IF pos >= Len(text) \/ Ch(text, pos) \in {"<", "{"} THEN pos
    ELSE ChardataEnd(text, pos + 1)

\* _parse_chardata: the characters read
_parse_chardata(text, pos) == Slice(text, pos, ChardataEnd(text, pos))

RECURSIVE ContentLoop(_, _, _, _, _)

\* r is the content item just parsed, wrapped by what it is
ContentAdd(text, name, attrs, contents, wrap, r) ==
    IF r.err # "" THEN r
    ELSE ContentLoop(text, r.lx.pos, name, attrs,
                     Append(contents,
                            CASE wrap = "text" -> TextConstructor(r.val[2])
                              [] wrap = "interp" -> Interp(r.val[1])
                              [] OTHER -> r.val))

\* end is what _read_end_tag gave
EndTag(name, attrs, contents, end) ==
    IF end.err # "" THEN Raise(end.err)
    ELSE IF end.name # name THEN Raise("SyntaxError")
    ELSE Parsed(Constructor(name, attrs, contents), Lexer(end.pos, NoToken))

\* The content loop of _parse_constructor, self.lexer.pos at pos
ContentLoop(text, pos, name, attrs, contents) ==
    IF pos >= Len(text) THEN Raise("SyntaxError")
    ELSE IF Slice(text, pos, pos + 2) = <<"<", "/">>
    THEN EndTag(name, attrs, contents, _read_end_tag(text, pos))
    ELSE IF Slice(text, pos, pos + 5) = N_text \o <<"{">>
    THEN ContentAdd(text, name, attrs, contents, "text",
                    Run(text, Lexer(pos + 4, NoToken),
                        <<Expect("PUNCT", <<"{">>), Call("expr"),
                          Expect("PUNCT", <<"}">>)>>, <<>>))
    ELSE IF Ch(text, pos) = "<"
    THEN ContentAdd(text, name, attrs, contents, "constructor",
                    RunStep(text, Lexer(pos, NoToken), Call("constructor")))
    ELSE IF Ch(text, pos) = "{"
    THEN ContentAdd(text, name, attrs, contents, "interp",
                    Run(text, Lexer(pos + 1, NoToken),
                        <<Call("expr"), Expect("PUNCT", <<"}">>)>>, <<>>))
    ELSE IF StripWs(_parse_chardata(text, pos)) # <<>>
    THEN ContentLoop(text, ChardataEnd(text, pos), name, attrs,
                     Append(contents, Text(_parse_chardata(text, pos))))
    ELSE ContentLoop(text, ChardataEnd(text, pos), name, attrs, contents)

RECURSIVE AttrsLoop(_, _, _, _)

\* r is the attribute just parsed
AttrAdd(text, name, attrs, r) ==
    IF r.err # "" THEN r
    ELSE AttrsLoop(text, r.lx, name, Append(attrs, <<r.val[1], r.val[4]>>))

\* r is the /> of an empty element
EmptyOf(name, attrs, r) ==
    IF r.err # "" THEN r ELSE Parsed(Constructor(name, attrs, <<>>), r.lx)

AttrsTok(text, lx, name, attrs, tok) ==
    IF tok.kind = "ERR" THEN Raise(tok.value[1])
    ELSE IF Is(tok, "OP", <<">">>)
    THEN ContentLoop(text, Advance(text, lx).pos, name, attrs, <<>>)
    ELSE IF Is(tok, "SLASH", <<"/">>)
    THEN EmptyOf(name, attrs,
                 Run(text, lx,
                     <<Expect("SLASH", <<"/">>), Expect("OP", <<">">>)>>, <<>>))
    ELSE AttrAdd(text, name, attrs,
                 Run(text, lx,
                     <<Call("qname"), Expect("OP", <<"=">>), Expect("PUNCT", <<"{">>),
                       Call("expr"), Expect("PUNCT", <<"}">>)>>, <<>>))

\* The attribute loop of _parse_constructor
AttrsLoop(text, lx, name, attrs) == AttrsTok(text, lx, name, attrs, peek(text, lx))

\* r is <name
ConstructorHead(text, r) ==
    IF r.err # "" THEN r ELSE AttrsLoop(text, r.lx, r.val[2], <<>>)

_parse_constructor(text, lx) ==
    ConstructorHead(text, Run(text, lx, <<Expect("OP", <<"<">>), Call("qname")>>, <<>>))

\* A Module with nothing declared
EmptyModule == Module(EmptyDict, EmptyDict, <<>>, EmptyDict, <<>>, NoExpr)

\* The module with a declaration entered; v is what its statements returned
Declared(m, decl, v) ==
    CASE decl = W_ns -> [m EXCEPT !.namespaces = Bind(@, v[2], v[4])]
      [] decl = W_import -> [m EXCEPT !.imports = Append(@, <<v[2], v[3]>>)]
      [] decl = W_var -> [m EXCEPT !.vars = SetItem(@, v[2], v[4])]
      [] decl = W_def -> [m EXCEPT !.functions = Bind(@, v[2], FunctionDef(v[4], v[7]))]
      [] decl = W_rule ->
            [m EXCEPT !.rules =
                Bind(@, v[2],
                     (IF v[2] \in DOMAIN @ THEN @[v[2]] ELSE <<>>)
                        \o <<RuleDef(v[4], v[6])>>)]

\* The statements of _parse_ns, _parse_import, _parse_var, _parse_def and
\* _parse_rule
Declaration(decl) ==
    CASE decl = W_ns ->
            <<Expect("KW", W_ns), Expect("STRING", NoneStr), Expect("OP", <<"=">>),
              Expect("STRING", NoneStr), Expect("PUNCT", <<";">>)>>
      [] decl = W_import ->
            <<Expect("KW", W_import), Expect("STRING", NoneStr),
              Optional("KW", W_as, "qname"), Expect("PUNCT", <<";">>)>>
      [] decl = W_var ->
            <<Expect("KW", W_var), Expect("IDENT", NoneStr), Expect("OP", <<":", "=">>),
              Call("expr"), Expect("PUNCT", <<";">>)>>
      [] decl = W_def ->
            <<Expect("KW", W_def), Call("qname"), Expect("PUNCT", <<"(">>),
              Call("params"), Expect("PUNCT", <<")">>), Expect("OP", <<":", "=">>),
              Call("expr"), Expect("PUNCT", <<";">>)>>
      [] decl = W_rule ->
            <<Expect("KW", W_rule), Call("qname"), Expect("KW", W_match),
              Call("pattern"), Expect("OP", <<":", "=">>), Call("expr"),
              Expect("PUNCT", <<";">>)>>

RECURSIVE Declarations(_, _, _)

\* r is the declaration just parsed
DeclarationAdd(text, m, decl, r) ==
    IF r.err # "" THEN r ELSE Declarations(text, r.lx, Declared(m, decl, r.val))

\* The end of parse_module, tok the token behind the expression r
ModuleEnd(m, r, tok) ==
    IF tok.kind = "ERR" THEN Raise(tok.value[1])
    ELSE IF tok.kind # "EOF" THEN Raise("SyntaxError")
    ELSE Parsed([m EXCEPT !.expr = r.val], r.lx)

\* r is the expression of the module
ModuleExpr(text, m, r) ==
    IF r.err # "" THEN r ELSE ModuleEnd(m, r, peek(text, r.lx))

DeclarationsTok(text, lx, m, tok) ==
    IF tok.kind = "ERR" THEN Raise(tok.value[1])
    ELSE IF tok.kind = "KW" /\ tok.value \in {W_ns, W_import, W_var, W_def, W_rule}
    THEN DeclarationAdd(text, m, tok.value,
                        Run(text, lx, Declaration(tok.value), <<>>))
    ELSE IF tok.kind = "EOF" THEN Parsed(m, lx)
    ELSE ModuleExpr(text, m, RunStep(text, lx, Call("expr")))

\* The declaration loop of parse_module and what follows it
Declarations(text, lx, m) == DeclarationsTok(text, lx, m, peek(text, lx))

V_2_0 == <<"2", ".", "0">>

\* r is the ; behind the version
PrologueEnd(text, r) ==
    IF r.err # "" THEN r ELSE Declarations(text, r.lx, EmptyModule)

\* r is xform version "..."
Prologue(text, r) ==
    IF r.err # "" THEN r
    ELSE IF r.val[3] # V_2_0 THEN Raise("XFST0005")
    ELSE PrologueEnd(text, expect(text, r.lx, "PUNCT", <<";">>))

PrologueTok(text, lx, tok) ==
    IF tok.kind = "ERR" THEN Raise(tok.value[1])
    ELSE IF Is(tok, "KW", W_xform)
    THEN Prologue(text, Run(text, lx,
                            <<Expect("KW", W_xform), Expect("KW", W_version),
                              Expect("STRING", NoneStr)>>, <<>>))
    ELSE Declarations(text, lx, EmptyModule)

parse_module(text, lx) == PrologueTok(text, lx, peek(text, lx))

\* A call of a method of the lexer or the parser, the lexer as lx: what
\* it returns or raises and the lexer behind it (for lex, the lexer alone).
RunStep(text, lx, step) ==
    CASE step.do = "lex" -> Lex(text, lx)
      [] step.do = "expect" -> expect(text, lx, step.kind, step.value)
      [] step.do = "optional" -> OptionalTok(text, lx, step, peek(text, lx))
      [] step.do = "module" -> parse_module(text, lx)
      [] step.do = "expr" -> parse_expr(text, lx)
      [] step.do = "unary" -> _parse_unary(text, lx)
      [] step.do = "primary" -> _parse_primary(text, lx)
      [] step.do = "func_call" -> _parse_func_call(text, lx, step.value)
      [] step.do = "path" -> _parse_path(text, lx, step.value)
      [] step.do = "step_test" -> _parse_step_test(text, lx)
      [] step.do = "predicates" -> _parse_predicates(text, lx, <<>>)
      [] step.do = "pattern" -> _parse_pattern(text, lx)
      [] step.do = "constructor" -> _parse_constructor(text, lx)
      [] step.do = "args" -> ListTok(text, lx, "expr", peek(text, lx))
      [] step.do = "params" -> ListTok(text, lx, "param", peek(text, lx))
      [] step.do = "param" -> _parse_param(text, lx)
      [] step.do = "type_ref" -> _parse_type_ref(text, lx)
      [] step.do = "qname" -> _parse_qname(text, lx)

\* r is what the statement before the rest left
RunRest(text, rest, vals, r) ==
    IF r.err # "" THEN r ELSE Run(text, r.lx, rest, Append(vals, r.val))

\* Statements one after the other: val is the list of what they returned
Run(text, lx, steps, vals) ==
    IF steps = <<>> THEN Parsed(vals, lx)
    ELSE RunRest(text, Tail(steps), vals, RunStep(text, lx, Head(steps)))

\* Parser(text).parse_module()
Parser(text) == RunStep(text, Lexer(0, NoToken), Call("module"))


\* ------------------------------------------------------------ inputs

SeqsUpTo(S, n) == UNION {[1..len -> S] : len \in 0..n}

\* <r a="1" b="2"><c id="c1">a</c><c><s/>1</c><d>g0</d></r> and
\* <c id="x">g1</c>, as ET.fromstring gives them
XmlInputs ==
    <<El(<<"r">>, <<<<<<"a">>, <<"1">>>>, <<<<"b">>, <<"2">>>>>>, NoneStr,
         <<El(<<"c">>, <<<<<<"i", "d">>, <<"c", "1">>>>>>, <<"a">>, <<>>, NoneStr),
           El(<<"c">>, <<>>, NoneStr,
              <<El(<<"s">>, <<>>, NoneStr, <<>>, <<"1">>)>>, NoneStr),
           El(<<"d">>, <<>>, <<"g", "0">>, <<>>, NoneStr)>>,
         NoneStr),
      El(<<"c">>, <<<<<<"i", "d">>, <<"x">>>>>>, <<"g", "1">>, <<>>, NoneStr)>>

\* The nodes of the loaded document: the document node and its descendants.
InputNodes(h) == 1..(1 + Len(iter_descendants(h, 1)))

AtomItems ==
    {Str(<<"a">>), Str(<<"b">>), Str(<<"1">>), Str(<<>>), Num(0), Num(1),
     Bool(TRUE), Bool(FALSE), NoneItem}

OperandItems(h) == AtomItems \cup {NodeItem(i) : i \in InputNodes(h)}

\* Operand sequences: empty, or any item followed by up to
\* MaxOperandLen - 1 further strings.
Operands(h) ==
    {<<>>} \cup {<<x>> \o rest : x \in OperandItems(h),
                 rest \in SeqsUpTo({Str(<<"b">>)}, MaxOperandLen - 1)}

BinaryOps ==
    {"and", "or", "+", "-", "*", "div", "mod", "=", "!=", "<", "<=", ">", ">=", "?"}

Axes == {"self", "parent", "desc_or_self", "desc", "attr", "child"}

StepTests ==
    {StepTest("name", <<"a">>), StepTest("name", <<"i", "d">>),
     StepTest("name", <<"c">>), StepTest("name", <<"z">>),
     StepTest("wildcard", NoneStr), StepTest("text", NoneStr),
     StepTest("node", NoneStr), StepTest("comment", NoneStr)}

\* No predicate, [0], [2], [s] and [2][s]
PredicateLists ==
    {<<>>, <<Literal(Num(0))>>, <<Literal(Num(2))>>, <<VarRef(<<"s">>)>>,
     <<Literal(Num(2)), VarRef(<<"s">>)>>}

\* The item lists handed to apply_step: no item, one node, one string, and
\* a node, a string and the first node.
StepItems(h) ==
    {<<>>, <<Str(<<"a">>)>>} \cup {<<NodeItem(i)>> : i \in InputNodes(h)}
    \cup {<<NodeItem(i), Str(<<"a">>), NodeItem(1)>> : i \in InputNodes(h)}

\* A context with nothing bound, on the given context item.
BareCtx(item) == Context(item, EmptyDict, EmptyDict, EmptyDict, NoPos, NoPos)

V_n == <<"n">>

V_g == <<"g">>

V_v == <<"v">>

V_x == <<"x">>

F_gk == <<"g", "k">>

F_f == <<"f">>

F_u == <<"u">>

\* the path `.`
Dot == PathExpr(PathStart("context", NoneStr), <<>>)

\* seq(position(), last())
PosLast == FuncCall(N_seq, <<FuncCall(N_position, <<>>), FuncCall(N_last, <<>>)>>)

\* seq(v1, ..., vn) over literals
SeqExpr(s) == FuncCall(N_seq, [i \in 1..Len(s) |-> Literal(s[i])])

\* string(lookup(g, "key"))
GroupKeyExpr == FuncCall(N_string, <<FuncCall(N_lookup, <<VarRef(V_g), Literal(Str(S_key))>>)>>)

\* def key(x) := x;  def gk(g) := string(lookup(g, "key"));
GroupFunctions ==
    (S_key :> FunctionDef(<<Param(V_x, NoExpr)>>, VarRef(V_x)))
    @@ (F_gk :> FunctionDef(<<Param(V_g, NoExpr)>>, GroupKeyExpr))

\* groupBy(items, key)
GroupByExpr == FuncCall(N_groupBy, <<VarRef(S_items), VarRef(S_key)>>)

\* The items grouped: strings, and the last text node of the document.
GroupItems(h) ==
    {Str(<<"g", "1">>), Str(<<"g", "0">>), Str(<<"a">>), NodeItem(Len(h))}

\* for g in groupBy(items, key) return string(lookup(g, "key")), and
\* for g in sort(groupBy(items, key), gk) return gk(g)
GroupEvals(h) ==
    {[family |-> "group", expr |-> e,
      ctx |-> Context(NodeItem(1), S_items :> s, GroupFunctions, EmptyDict, NoPos, NoPos)] :
        e \in {ForExpr(V_g, GroupByExpr, NoExpr, GroupKeyExpr),
               ForExpr(V_g, FuncCall(N_sort, <<GroupByExpr, VarRef(F_gk)>>), NoExpr,
                       FuncCall(F_gk, <<VarRef(V_g)>>))},
        s \in SeqsUpTo(GroupItems(h), MaxSeqLen)}

\* A and B, A or B: A a literal or the empty seq(), B a literal, a call of
\* position or a call of the undefined u
AndOrEvals ==
    {[family |-> "andor", expr |-> BinaryOp(bop, a, b), ctx |-> BareCtx(NodeItem(1))] :
        bop \in {"and", "or"},
        a \in {Literal(x) : x \in AtomItems} \cup {FuncCall(N_seq, <<>>)},
        b \in {FuncCall(F_u, <<>>), Literal(Bool(TRUE)), Literal(Num(0)),
               FuncCall(N_position, <<>>)}}

\* n > 1
W_nGt1 == BinaryOp(">", VarRef(V_n), Literal(Num(1)))

\* position() < last()
W_notLast == BinaryOp("<", FuncCall(N_position, <<>>), FuncCall(N_last, <<>>))

\* . > 1
W_dotGt1 == BinaryOp(">", Dot, Literal(Num(1)))

\* for n in seq(...) (where w)? return body
ForEvals ==
    {[family |-> "for", expr |-> ForExpr(V_n, SeqExpr(s), w, body),
      ctx |-> BareCtx(NodeItem(1))] :
        s \in SeqsUpTo({Num(1), Num(2), Num(3)}, MaxSeqLen),
        w \in {NoExpr, W_nGt1, W_notLast, W_dotGt1},
        body \in {PosLast, FuncCall(N_position, <<>>), VarRef(V_n), Dot}}

\* _, node(), text(), <c>{v}</c>, <r><c/></r>
Patterns ==
    {WildcardPattern, TypedPattern("node"), TypedPattern("text"),
     ElementPattern(<<"c">>, V_v, NoPattern),
     ElementPattern(<<"r">>, NoneStr, ElementPattern(<<"c">>, NoneStr, NoPattern))}

\* The body of the j-th case or rule: seq(j, ., v)
CaseBody(j) == FuncCall(N_seq, <<Literal(Num(j)), Dot, VarRef(V_v)>>)

\* The default body: seq(0, .)
DefaultBody == FuncCall(N_seq, <<Literal(Num(0)), Dot>>)

\* The items matched: the root element, node 3, the last text node, a string.
MatchItems(h) == {NodeItem(2), NodeItem(3), NodeItem(Len(h)), Str(<<"a">>)}

\* match items: case p1 => seq(1, ., v); ... (default => seq(0, .);)?
MatchEvals(h) ==
    {[family |-> "match",
      expr |-> MatchExpr(VarRef(S_items),
                         [j \in 1..Len(ps) |-> <<ps[j], CaseBody(j)>>], d),
      ctx |-> Context(NodeItem(1), S_items :> s, EmptyDict, EmptyDict, NoPos, NoPos)] :
        ps \in SeqsUpTo(Patterns, MaxCases), d \in {NoExpr, DefaultBody},
        s \in SeqsUpTo(MatchItems(h), MaxTargets)}

\* The names looked up: the element names c and r, and x.
RefNames == {<<"c">>, <<"r">>, V_x}

\* A bare name, bound or not as a variable and as a function, on every
\* kind of context item.
VarRefEvals(h) ==
    {[family |-> "varref", expr |-> VarRef(name),
      ctx |-> Context(item,
                      IF isVar THEN name :> <<Num(7)>> ELSE EmptyDict,
                      IF isFn THEN name :> FunctionDef(<<>>, Literal(Num(1)))
                      ELSE EmptyDict,
                      EmptyDict, NoPos, NoPos)] :
        name \in RefNames, isVar \in BOOLEAN, isFn \in BOOLEAN,
        item \in {NodeItem(i) : i \in InputNodes(h)} \cup {Str(<<"a">>), NoneItem}}

S_alt == <<"a", "l", "t">>

S_e == <<"e">>

S_zz == <<"z", "z">>

\* The rule table: main holds the given rules, alt one wildcard rule, e none.
RuleTable(ps) ==
    (S_main :> [j \in 1..Len(ps) |-> RuleDef(ps[j], CaseBody(j))])
    @@ (S_alt :> <<RuleDef(WildcardPattern, CaseBody(9))>>)
    @@ (S_e :> <<>>)

\* apply(seq) and apply(seq, ruleset), the rule set named main, alt, e,
\* zz (which does not exist) or given as the empty sequence
ApplyCalls(h) ==
    {[family |-> "apply", name |-> N_apply, args |-> <<s>> \o rs,
      ctx |-> Context(NodeItem(1), EmptyDict, EmptyDict, RuleTable(ps), NoPos, NoPos)] :
        s \in SeqsUpTo(MatchItems(h), MaxTargets),
        rs \in {<<>>, <<<<>>>>, <<<<Str(S_main)>>>>, <<<<Str(S_alt)>>>>,
                <<<<Str(S_e)>>>>, <<<<Str(S_zz)>>>>},
        ps \in SeqsUpTo(Patterns \ {TypedPattern("node")}, MaxCases)}

V_a == <<"a">>

V_b == <<"b">>

V_c == <<"c">>

ParamNames == <<V_a, V_b, V_c>>

\* The parameter lists: each parameter without default, with a literal
\* default, or with the default `a`.
ParamLists ==
    {[j \in 1..Len(ds) |-> Param(ParamNames[j], ds[j])] :
        ds \in SeqsUpTo({NoExpr, Literal(Str(<<"d">>)), VarRef(V_a)}, MaxParams)}

\* seq(a, b)
UserBody == FuncCall(N_seq, <<VarRef(V_a), VarRef(V_b)>>)

\* The caller's variables: a is bound, b is not.
CallerVars == V_a :> <<Str(<<"A">>)>>

\* f(args) for def f(params) := seq(a, b), called where a is bound
UserCalls ==
    {[family |-> "user", name |-> F_f, args |-> args,
      ctx |-> Context(NodeItem(1), CallerVars,
                      F_f :> FunctionDef(params, UserBody), EmptyDict, NoPos, NoPos)] :
        args \in SeqsUpTo({<<Num(1)>>, <<Str(<<"x">>)>>, <<>>}, MaxArgs),
        params \in ParamLists}

N_Count == <<"C", "o", "u", "n", "t">>

\* def count() := "user"; def f() := "user";
ShadowFunctions ==
    (N_count :> FunctionDef(<<>>, Literal(Str(<<"u", "s", "e", "r">>))))
    @@ (F_f :> FunctionDef(<<>>, Literal(Str(<<"u", "s", "e", "r">>))))

\* Every built-in name, a name differing in case, an unknown name and a
\* user function, called without arguments and with one, with and without
\* user functions count and f.
DispatchCalls ==
    {[family |-> "dispatch", name |-> name, args |-> args,
      ctx |-> Context(NodeItem(1), EmptyDict, fns, EmptyDict, NoPos, NoPos)] :
        name \in BuiltinNames \cup {N_Count, F_u, F_f},
        args \in {<<>>, <<<<Num(1), Num(2)>>>>},
        fns \in {EmptyDict, ShadowFunctions}}

F_k == <<"k">>

\* def k(x) := name(x);
KeyFunctions == F_k :> FunctionDef(<<Param(V_x, NoExpr)>>, FuncCall(N_name, <<VarRef(V_x)>>))

\* The items sorted, made distinct and grouped: strings, numbers whose
\* strings are among them or order otherwise than the numbers do, and the
\* elements of the document.
CollectionItems(h) ==
    {Str(<<"b">>), Str(<<"a">>), Str(<<"a", "b">>), Str(<<"2">>), Num(2), Num(10)}
    \cup {NodeItem(i) : i \in {j \in InputNodes(h) : h[j].kind = "element"}}

\* name(seq), name(seq, k) and name(seq, ()) for sort, distinct and groupBy
CollectionCalls(name, h) ==
    {[family |-> name, name |-> name, args |-> <<s>> \o more,
      ctx |-> Context(NodeItem(1), EmptyDict, KeyFunctions, EmptyDict, NoPos, NoPos)] :
        s \in SeqsUpTo(CollectionItems(h), MaxSeqLen),
        more \in {<<>>, <<<<FunctionRef(F_k)>>>>, <<<<>>>>}}

\* last() and last(s), outside an iteration and at each place of one
LastCalls(h) ==
    {[family |-> "last", name |-> N_last, args |-> args,
      ctx |-> Context(NodeItem(1), EmptyDict, EmptyDict, EmptyDict, pl[1], pl[2])] :
        args \in {<<>>} \cup
                 {<<s>> : s \in SeqsUpTo({Num(1), Str(<<"a">>), NodeItem(2)}, MaxSeqLen)},
        pl \in {<<NoPos, NoPos>>} \cup
               {pl \in (1..MaxSeqLen) \X (1..MaxSeqLen) : pl[1] <= pl[2]}}

\* The calls of call_function of a family.
Calls(family, h) ==
    IF family = "apply" THEN ApplyCalls(h)
    ELSE IF family = "user" THEN UserCalls
    ELSE IF family = "dispatch" THEN DispatchCalls
    ELSE IF family = "last" THEN LastCalls(h)
    ELSE CollectionCalls(family, h)

CallFamilies == {"apply", "user", "dispatch", "last", N_sort, N_distinct, N_groupBy}

S_o == <<"o">>

S_i == <<"i">>

S_k == <<"k">>

\* the path `*`
ChildStar == PathExpr(PathStart("context", NoneStr),
                      <<PathStep("child", StepTest("wildcard", NoneStr), <<>>)>>)

\* the path `@a`
AttrA == PathExpr(PathStart("context", NoneStr),
                  <<PathStep("attr", StepTest("name", <<"a">>), <<>>)>>)

\* What stands between the tags of a constructor: text, the context item,
\* its children, an attribute of it, a string, a copy, a nested element.
Contents ==
    {Text(<<"t">>), Dot, ChildStar, AttrA, SeqExpr(<<Str(<<"a">>)>>),
     FuncCall(N_copy, <<Dot>>), Constructor(S_i, <<>>, <<Dot>>)}

\* <o>...</o> and <o k="{.}">...</o> on every input node.
ConstructEvals(h) ==
    {[family |-> "construct",
      expr |-> Constructor(S_o, attrs, contents),
      ctx |-> BareCtx(NodeItem(i))] :
        attrs \in {<<>>, <<<<S_k, Dot>>>>},
        contents \in SeqsUpTo(Contents, MaxContents),
        i \in InputNodes(h)}

RECURSIVE Concat(_)
Concat(ss) == IF ss = <<>> THEN <<>> ELSE Head(ss) \o Concat(Tail(ss))

\* What the values serialized are put together from: the characters that
\* are escaped, a plain one, and the tails of the entities.
Pieces ==
    {<<"&">>, <<"<">>, <<">">>, <<"\"">>, <<"a">>, <<"l", "t", ";">>,
     <<"a", "m", "p", ";">>, <<"q", "u", "o", "t", ";">>}

Values == {Concat(ps) : ps \in SeqsUpTo(Pieces, MaxPieces)}

S_b == <<"b">>

\* The nodes serialized: a text node, an attribute node, an empty element
\* <o b=".." a="x"/>, an element <o b="..">..</o> with one text child.
Shapes == {"text", "attribute", "empty", "element"}

\* The nodes of a shape with a value, as the next objects of the store:
\* [id, heap]
Built(h, shape, s) ==
    IF shape = "text" THEN Alloc(h, Node("text", NoneStr, s, <<>>, 0))
    ELSE IF shape = "attribute" THEN Alloc(h, Node("attribute", S_b, s, <<>>, 0))
    ELSE IF shape = "empty"
         THEN Alloc(h, Node("element", S_o, NoneStr, <<<<S_b, s>>, <<<<"a">>, <<"x">>>>>>, 0))
    ELSE LET e == Alloc(h, Node("element", S_o, NoneStr, <<<<S_b, s>>>>, 0))
             c == Alloc(e.heap, Node("text", NoneStr, s, <<>>, e.id))
         IN  [id |-> e.id, heap |-> [c.heap EXCEPT ![e.id].children = <<c.id>>]]

\* The calls of eval_expr of a family.
\* Source texts.  The pieces of literals: 1  .5  "  \u0041  \u00  \uzz  x  and the
\* blank.
LexPieces ==
    {<<"1">>, <<".", "5">>, <<"\"">>, <<"\\", "u", "0", "0", "4", "1">>,
     <<"\\", "u", "0", "0">>, <<"\\", "u", "z", "z">>, <<"x">>, <<" ">>}

\* The pieces of paths: .  ..  /  @  id  c  *
PathPieces ==
    {<<".">>, <<".", ".">>, <<"/">>, <<"@">>, <<"i", "d">>, <<"c">>, <<"*">>}

\* The pieces of constructor content: =  x  !  {1}  <m/>  and the blank.
ContentPieces ==
    {<<"=">>, <<"x">>, <<"!">>, <<"{", "1", "}">>, <<"<", "m", "/", ">">>,
     <<" ">>}

\* <n>  and  <n a={1}>
OpenTags ==
    {<<"<", "n", ">">>, <<"<", "n", " ", "a", "=", "{", "1", "}", ">">>}

\* </n>  and  </m>
EndTags ==
    {<<"<", "/", "n", ">">>, <<"<", "/", "m", ">">>}

\* xform version "2.0";
SupportedPrologue ==
    W_xform \o <<" ">> \o W_version \o <<" ", "\"">> \o V_2_0 \o <<"\"", ";", " ">>

\* xform version "1.0";
UnsupportedPrologue ==
    W_xform \o <<" ">> \o W_version \o <<" ", "\"", "1", ".", "0", "\"", ";", " ">>

Prologues == {<<>>, SupportedPrologue, UnsupportedPrologue}

\* The declarations
\*   ns "p" = "u";
\*   import "i" as m;
\*   var v := 1;
\*   def f(x, y: t := 2) := x;
\*   rule main match <a>{v}</a> := v;
DeclarationTexts ==
    {<<"n", "s", " ", "\"", "p", "\"", " ", "=", " ", "\"", "u", "\"", ";", " ">>,
     <<"i", "m", "p", "o", "r", "t", " ", "\"", "i", "\"", " ", "a", "s", " ", "m", ";", " ">>,
     <<"v", "a", "r", " ", "v", " ", ":", "=", " ", "1", ";", " ">>,
     <<"d", "e", "f", " ", "f", "(", "x", ",", " ", "y", ":", " ", "t", " ", ":", "=", " ", "2", ")", " ", ":", "=", " ", "x", ";", " ">>,
     <<"r", "u", "l", "e", " ", "m", "a", "i", "n", " ", "m", "a", "t", "c", "h", " ", "<", "a", ">", "{", "v", "}", "<", "/", "a", ">", " ", ":", "=", " ", "v", ";", " ">>}

\* The expressions: none, and
\*   if 1 then 2 else 3
\*   let x := 1 in x
\*   for x in . where 1 return x
\*   match .: case @a => 1; default => 2;
\*   f(1, c[1])
\*   text{1}
\*   not - 1 + 2 * 3 < 4 and 5 = 6 or 7
\*   .//text()
ExpressionTexts ==
    {<<>>,
     <<"i", "f", " ", "1", " ", "t", "h", "e", "n", " ", "2", " ", "e", "l", "s", "e", " ", "3">>,
     <<"l", "e", "t", " ", "x", " ", ":", "=", " ", "1", " ", "i", "n", " ", "x">>,
     <<"f", "o", "r", " ", "x", " ", "i", "n", " ", ".", " ", "w", "h", "e", "r", "e", " ", "1", " ", "r", "e", "t", "u", "r", "n", " ", "x">>,
     <<"m", "a", "t", "c", "h", " ", ".", ":", " ", "c", "a", "s", "e", " ", "@", "a", " ", "=", ">", " ", "1", ";", " ", "d", "e", "f", "a", "u", "l", "t", " ", "=", ">", " ", "2", ";">>,
     <<"f", "(", "1", ",", " ", "c", "[", "1", "]", ")">>,
     <<"t", "e", "x", "t", "{", "1", "}">>,
     <<"n", "o", "t", " ", "-", " ", "1", " ", "+", " ", "2", " ", "*", " ", "3", " ", "<", " ", "4", " ", "a", "n", "d", " ", "5", " ", "=", " ", "6", " ", "o", "r", " ", "7">>,
     <<".", "/", "/", "t", "e", "x", "t", "(", ")">>}

\* Literals, paths, constructors <n ...>content</n>, and modules of a
\* prologue, declarations and an expression.
LexTexts == {Concat(ps) : ps \in SeqsUpTo(LexPieces, MaxSource)}

PathTexts == {Concat(ps) : ps \in SeqsUpTo(PathPieces, MaxSource - 1)}

ConstructorTexts ==
    {open \o Concat(ps) \o end :
        open \in OpenTags, ps \in SeqsUpTo(ContentPieces, MaxSource - 1),
        end \in EndTags}

ModuleTexts ==
    {prologue \o Concat(ds) \o e :
        prologue \in Prologues, ds \in SeqsUpTo(DeclarationTexts, MaxSource - 2),
        e \in ExpressionTexts}

\* The words of the binary operators
BinaryWords ==
    {W_or, W_and, <<"=">>, <<"!", "=">>, <<"<">>, <<"<", "=">>, <<">">>,
     <<">", "=">>, <<"+">>, <<"-">>, <<"*">>, W_div, W_mod}

\* What stands before an operand: nothing, or a unary operator
UnaryWords == {<<>>, <<<<"-">>>>, <<W_not>>}

\* The operands, by their place in the expression
OperandWords == <<<<"a">>, <<"b">>, <<"c">>, <<"d">>, <<"e">>, <<"f">>>>

RECURSIVE OperatorWords(_, _, _)
\* operand 1, ops[1], operand 2, ..., each operand behind unary[i]
OperatorWords(ops, unary, i) ==
    unary[i] \o <<OperandWords[i]>> \o
    (IF i > Len(ops) THEN <<>> ELSE <<ops[i]>> \o OperatorWords(ops, unary, i + 1))

\* The words with a blank between them
Spaced(words) ==
    IF words = <<>> THEN <<>>
    ELSE Head(words) \o Concat([i \in 1..(Len(words) - 1) |-> <<" ">> \o words[i + 1]])

\* a or b and c = d + e * -f
LadderText ==
    <<"a", " ">> \o W_or \o <<" ", "b", " ">> \o W_and \o
    <<" ", "c", " ", "=", " ", "d", " ", "+", " ", "e", " ", "*", " ", "-", "f">>

\* Expressions of up to MaxOperators binary operators
OperatorTexts ==
    {LadderText} \cup
    {Spaced(OperatorWords(ops, unary, 1)) :
        ops \in UNION {[1..n -> BinaryWords] : n \in 0..MaxOperators},
        unary \in [1..(MaxOperators + 1) -> UnaryWords]}

SourceTexts == LexTexts \cup PathTexts \cup ConstructorTexts \cup ModuleTexts

\* The paths that parse, each evaluated on each node of the input.
ParsedEvals(h) ==
    {[expr |-> Parser(text).val.expr, ctx |-> BareCtx(NodeItem(id)),
      text |-> text] :
        text \in {t \in PathTexts \ {<<>>} : Parser(t).err = ""},
        id \in InputNodes(h)}

F_g == <<"g">>

F_h == <<"h">>

V_y == <<"y">>

\* seq(x, y, ., position(), last()), x being free in it
GBody ==
    FuncCall(N_seq, <<VarRef(V_x), VarRef(V_y), Dot, FuncCall(N_position, <<>>),
                      FuncCall(N_last, <<>>)>>)

\* def g(y) := seq(x, y, ., position(), last());  def h(x) := g(x);
DynamicFunctions ==
    (F_g :> FunctionDef(<<Param(V_y, NoExpr)>>, GBody))
    @@ (F_h :> FunctionDef(<<Param(V_x, NoExpr)>>, FuncCall(F_g, <<VarRef(V_x)>>)))

\* g(a) and h(a) with the parameters bound by let around the body
LetG(a) == LetExpr(V_y, a, GBody)

LetH(a) == LetExpr(V_x, a, LetG(VarRef(V_x)))

\* The calls g(7), g(x), h(2), seq(h(2), x), each with its let form
DynamicCalls ==
    {<<FuncCall(F_g, <<Literal(Num(7))>>), LetG(Literal(Num(7)))>>,
     <<FuncCall(F_g, <<VarRef(V_x)>>), LetG(VarRef(V_x))>>,
     <<FuncCall(F_h, <<Literal(Num(2))>>), LetH(Literal(Num(2)))>>,
     <<FuncCall(N_seq, <<FuncCall(F_h, <<Literal(Num(2))>>), VarRef(V_x)>>),
       FuncCall(N_seq, <<LetH(Literal(Num(2))), VarRef(V_x)>>)>>}

\* The places of a call: alone, in let x := 5, in for x in seq(8, 9), in
\* for n in ./*, in a case <c>{x}</c> and the default of match ./*
CallSites == {"alone", "let", "for", "nodes", "match"}

CallSite(site, c) ==
    CASE site = "alone" -> c
      [] site = "let" -> LetExpr(V_x, Literal(Num(5)), c)
      [] site = "for" -> ForExpr(V_x, SeqExpr(<<Num(8), Num(9)>>), NoExpr, c)
      [] site = "nodes" -> ForExpr(V_n, ChildStar, NoExpr, c)
      [] site = "match" ->
            MatchExpr(ChildStar, <<<<ElementPattern(<<"c">>, V_x, NoPattern), c>>>>, c)

\* A call at a place, with x bound to 1 or not, inside an iteration or
\* not, on every input node and on a string
DynamicEvals(h) ==
    {[family |-> "dynamic", expr |-> CallSite(site, c[1]),
      inlined |-> CallSite(site, c[2]),
      ctx |-> Context(item, outer, DynamicFunctions, EmptyDict, pl[1], pl[2])] :
        site \in CallSites, c \in DynamicCalls,
        item \in {NodeItem(i) : i \in InputNodes(h)} \cup {Str(<<"a">>)},
        outer \in {EmptyDict, V_x :> <<Num(1)>>},
        pl \in {<<NoPos, NoPos>>, <<2, 3>>}}

F_p == <<"p">>

\* def p() := seq(position(), last());
PositionFunctions == F_p :> FunctionDef(<<>>, PosLast)

\* rule main match _ := seq(position(), last());
PositionRules == S_main :> <<RuleDef(WildcardPattern, PosLast)>>

\* ./*[f() = k], f being position or last
ChildrenWhere(f, k) ==
    PathExpr(PathStart("context", NoneStr),
             <<PathStep("child", StepTest("wildcard", NoneStr),
                        <<BinaryOp("=", FuncCall(f, <<>>), Literal(Num(k)))>>)>>)

\* seq(position(), last()) alone and in a let, a case and a default of
\* match, a function body and a rule body; ./*[position() = k] and
\* ./*[last() = k]: [kind, k, expr]
PositionForms ==
    {[kind |-> "inherit", k |-> 0, expr |-> e] :
        e \in {PosLast, LetExpr(V_v, Literal(Num(0)), PosLast),
               MatchExpr(Dot, <<<<WildcardPattern, PosLast>>>>, NoExpr),
               MatchExpr(Dot, <<<<TypedPattern("comment"), Dot>>>>, PosLast),
               FuncCall(F_p, <<>>), FuncCall(N_apply, <<Dot>>)}}
    \cup {[kind |-> "position", k |-> k, expr |-> ChildrenWhere(N_position, k)] :
             k \in 1..MaxSeqLen}
    \cup {[kind |-> "last", k |-> k, expr |-> ChildrenWhere(N_last, k)] :
             k \in 1..MaxSeqLen}

RECURSIVE Times(_, _)
\* seq(e, ..., e) of n times e
Times(e, n) == IF n = 0 THEN <<>> ELSE Append(Times(e, n - 1), e)

\* A form alone (times 0) or in for n in seq(., ..., .), on every input
\* node, inside an iteration (position 2 of 3) or not
PositionEvals(h) ==
    {[family |-> "position", form |-> form, times |-> times,
      expr |-> IF times = 0 THEN form.expr
               ELSE ForExpr(V_n, FuncCall(N_seq, Times(Dot, times)), NoExpr, form.expr),
      ctx |-> Context(NodeItem(i), EmptyDict, PositionFunctions, PositionRules,
                      pl[1], pl[2])] :
        form \in PositionForms, times \in 0..MaxSeqLen, i \in InputNodes(h),
        pl \in {<<NoPos, NoPos>>, <<2, 3>>}}

\* The sequences iterated over: ./*, seq("a", 1), <o>{.}</o>, the children
\* of <o>{.}</o>, text{"a"} and ./@a
RootSeqs ==
    {ChildStar, SeqExpr(<<Str(<<"a">>), Num(1)>>), Constructor(S_o, <<>>, <<Dot>>),
     LetExpr(V_v, Constructor(S_o, <<>>, <<Dot>>),
             PathExpr(PathStart("var", V_v),
                      <<PathStep("child", StepTest("node", NoneStr), <<>>)>>)),
     TextConstructor(Literal(Str(<<"a">>))), AttrA}

\* The paths /, //, //c and /*: [kind, expr]
RootPaths ==
    {[kind |-> "/", expr |-> PathExpr(PathStart("root", NoneStr), <<>>)],
     [kind |-> "//", expr |-> PathExpr(PathStart("desc_root", NoneStr), <<>>)],
     [kind |-> "//c",
      expr |-> PathExpr(PathStart("desc_root", NoneStr),
                        <<PathStep("desc_or_self", StepTest("name", <<"c">>), <<>>)>>)],
     [kind |-> "/*",
      expr |-> PathExpr(PathStart("root", NoneStr),
                        <<PathStep("child", StepTest("wildcard", NoneStr), <<>>)>>)]}

\* A path alone (seq NoExpr) or in for n in seq, on every input node, on a
\* string and on no context item
RootEvals(h) ==
    {[family |-> "root", path |-> p.kind, seq |-> s,
      expr |-> IF s = NoExpr THEN p.expr ELSE ForExpr(V_n, s, NoExpr, p.expr),
      ctx |-> BareCtx(item)] :
        p \in RootPaths, s \in RootSeqs \cup {NoExpr},
        item \in {NodeItem(i) : i \in InputNodes(h)} \cup {Str(<<"a">>), NoneItem}}

Evals(family, h) ==
    IF family = "group" THEN GroupEvals(h)
    ELSE IF family = "parsed" THEN ParsedEvals(h)
    ELSE IF family = "andor" THEN AndOrEvals
    ELSE IF family = "for" THEN ForEvals
    ELSE IF family = "match" THEN MatchEvals(h)
    ELSE IF family = "construct" THEN ConstructEvals(h)
    ELSE IF family = "dynamic" THEN DynamicEvals(h)
    ELSE IF family = "position" THEN PositionEvals(h)
    ELSE IF family = "root" THEN RootEvals(h)
    ELSE VarRefEvals(h)

EvalFamilies ==
    {"group", "andor", "for", "match", "varref", "construct", "parsed", "dynamic",
     "position", "root"}

\* The mapping of the context the scoping forms are evaluated in: x is 1
OuterVars == V_x :> <<Num(1)>>

\* def f(x, y := x) := seq(x, y);
ScopeFunctions ==
    F_f :> FunctionDef(<<Param(V_x, NoExpr), Param(V_y, VarRef(V_x))>>,
                       FuncCall(N_seq, <<VarRef(V_x), VarRef(V_y)>>))

\* rule main match <c>{x}</c> := x;  rule main match _ := x;
ScopeRules ==
    S_main :> <<RuleDef(ElementPattern(<<"c">>, V_x, NoPattern), VarRef(V_x)),
                RuleDef(WildcardPattern, VarRef(V_x))>>

\* The scoping forms, each binding x anew and giving the x it sees:
\*   let x := 2 return x
\*   for x in seq(2, 3) return x
\*   for x in seq(2, 3) where let x := 3 return x = 3 return x
\*   match * case <c>{x}</c> => x default => x
\*   f(2)
\*   apply(*)
\*   *[let x := 0 return x]
\* and x itself
ScopeForms ==
    {LetExpr(V_x, Literal(Num(2)), VarRef(V_x)),
     ForExpr(V_x, SeqExpr(<<Num(2), Num(3)>>), NoExpr, VarRef(V_x)),
     ForExpr(V_x, SeqExpr(<<Num(2), Num(3)>>),
             LetExpr(V_x, Literal(Num(3)), BinaryOp("=", VarRef(V_x), Literal(Num(3)))),
             VarRef(V_x)),
     MatchExpr(ChildStar, <<<<ElementPattern(<<"c">>, V_x, NoPattern), VarRef(V_x)>>>>,
               VarRef(V_x)),
     FuncCall(F_f, <<Literal(Num(2))>>),
     FuncCall(N_apply, <<ChildStar>>),
     PathExpr(PathStart("context", NoneStr),
              <<PathStep("child", StepTest("wildcard", NoneStr),
                         <<LetExpr(V_x, Literal(Num(0)), VarRef(V_x))>>)>>),
     VarRef(V_x)}

\* A form alone; seq(a, x, b); let x := a return seq(b, x); for x in a
\* return seq(b, x), for forms a and b
ScopeExprs ==
    ScopeForms
    \cup {FuncCall(N_seq, <<a, VarRef(V_x), b>>) : a \in ScopeForms, b \in ScopeForms}
    \cup {LetExpr(V_x, a, FuncCall(N_seq, <<b, VarRef(V_x)>>)) :
             a \in ScopeForms, b \in ScopeForms}
    \cup {ForExpr(V_x, a, NoExpr, FuncCall(N_seq, <<b, VarRef(V_x)>>)) :
             a \in ScopeForms, b \in ScopeForms}

\* Each expression on each node of the input; the context's mapping is
\* the first of the mappings there are
ScopedEvals(h) ==
    {[family |-> "scoped", expr |-> e, dicts |-> <<OuterVars>>,
      ctx |-> Context(NodeItem(id), 1, ScopeFunctions, ScopeRules, NoPos, NoPos)] :
        e \in ScopeExprs, id \in InputNodes(h)}

\* The names module variables are declared with
ModuleNames == {V_x, V_y}

\* The initializers: 1, 2, x, y, seq(x, y)
Initializers ==
    {Literal(Num(1)), Literal(Num(2)), VarRef(V_x), VarRef(V_y),
     FuncCall(N_seq, <<VarRef(V_x), VarRef(V_y)>>)}

\* The declarations `var name := expr;` of a module, in source order
Declarations_var == SeqsUpTo(ModuleNames \X Initializers, MaxDecls)

\* No top-level expression, and seq(x, y)
ModuleExprs == {NoExpr, FuncCall(N_seq, <<VarRef(V_x), VarRef(V_y)>>)}

RECURSIVE ModuleOf(_, _, _)
\* The Module parse_module returns for the declarations and the expression
ModuleOf(decls, expr, m) ==
    IF decls = <<>> THEN [m EXCEPT !.expr = expr]
    ELSE ModuleOf(Tail(decls), expr,
                  Declared(m, W_var,
                           <<W_var, Head(decls)[1], <<":", "=">>, Head(decls)[2]>>))

\* The pieces of the texts a Lexer is read from: x  1  ..  :=  "  and the blank
LexerPieces ==
    {<<"x">>, <<"1">>, <<".", ".">>, <<":", "=">>, <<"\"">>, <<" ">>}

LexerTexts == {Concat(ps) : ps \in SeqsUpTo(LexerPieces, MaxSource - 1)}

\* The calls made on a Lexer
LexerSchedules == SeqsUpTo({"peek", "next"}, MaxCalls)

\* What stands behind the name of a primary: nothing, (1), (), /c, + 1, a
\* second primary, and {1}, { 1 }, {, {1 with and without a blank before
AfterName ==
    {<<>>, <<"(", "1", ")">>, <<"(", ")">>, <<"/", "c">>, <<" ", "+", " ", "1">>,
     <<" ", "1">>, <<" ", "(", "1", ")">>, <<"(">>,
     <<"{", "1", "}">>, <<" ", "{", " ", "1", " ", "}">>, <<"{">>, <<"{", "1">>,
     <<"{", "t", "e", "x", "t", "}">>, <<"(", "t", "e", "x", "t", ")">>}

\* The names: text, and one that is no text
W_texu == <<"t", "e", "x", "u">>

LookaheadTexts ==
    {name \o after \o rest :
        name \in {N_text, W_texu}, after \in AfterName,
        rest \in {<<>>, <<" ", "+", " ", "t", "e", "x", "t">>}}

\* ------------------------------------------------------------ state machine

Init ==
    /\ \E d \in 1..Len(XmlInputs) : heap = parse_xml(XmlInputs[d]).heap
    /\ pc = "idle"
    /\ op = "none"
    /\ input = <<>>
    /\ result = <<>>
    /\ error = ""
    /\ log = <<>>
    /\ dicts = <<>>
    /\ touched = FALSE

\* The outcome of a call, as the caller sees it.
Done(name, in, r) ==
    /\ pc' = "done"
    /\ op' = name
    /\ input' = in
    /\ heap' = r.st.heap
    /\ result' = r.val
    /\ error' = r.err
    /\ log' = IF "log" \in DOMAIN r.st THEN r.st.log ELSE <<>>
    /\ dicts' = IF "dicts" \in DOMAIN r.st THEN r.st.dicts ELSE <<>>
    /\ touched' = IF "touched" \in DOMAIN r.st THEN r.st.touched ELSE FALSE

\* eval_binary(op, left, right)
EvalBinary ==
    /\ pc = "idle"
    /\ \E bop \in BinaryOps, left \in Operands(heap), right \in Operands(heap) :
          LET r == eval_binary(heap, bop, left, right)
          IN  /\ r.err # "NonIntegral"
              /\ Done("eval_binary", [op |-> bop, left |-> left, right |-> right],
                      IF r.err = "" THEN Ok(<<r.item>>, Store(heap, <<>>))
                      ELSE Fail(r.err, Store(heap, <<>>)))

\* eval_expr(expr, ctx), the mappings being objects
EvalScoped ==
    /\ pc = "idle"
    /\ \E e \in ScopedEvals(heap) :
          Done("eval_expr", e,
               eval_scoped(e.expr, e.ctx, Scope(heap, e.dicts, {e.ctx.variables}, FALSE)))

\* The caller drops the result; the nodes made for it are garbage.
Return ==
    /\ pc = "done"
    /\ pc' = "idle"
    /\ heap' = SubSeq(heap, 1, 1 + Len(iter_descendants(heap, 1)))
    /\ op' = "none"
    /\ input' = <<>>
    /\ result' = <<>>
    /\ error' = ""
    /\ log' = <<>>
    /\ dicts' = <<>>
    /\ touched' = FALSE

\* apply_step(items, step, ctx)
ApplyStep ==
    /\ pc = "idle"
    /\ \E items \in StepItems(heap), axis \in Axes, test \in StepTests,
          preds \in PredicateLists :
          LET step == PathStep(axis, test, preds)
          IN  Done("apply_step", [items |-> items, step |-> step],
                   apply_step(items, step, BareCtx(NodeItem(1)), Store(heap, <<>>)))

\* eval_expr(expr, ctx)
EvalExpr(family) ==
    /\ pc = "idle"
    /\ \E e \in Evals(family, heap) :
          Done("eval_expr", e, eval_expr(e.expr, e.ctx, Store(heap, <<>>)))

\* call_function(name, args, ctx)
CallFunction(family) ==
    /\ pc = "idle"
    /\ \E c \in Calls(family, heap) :
          Done("call_function", c, call_function(c.name, c.args, c.ctx, Store(heap, <<>>)))

\* deep_copy(node, recurse) of a node of the input, or of a node of the
\* copy just made.
DeepCopy ==
    /\ pc = "idle" \/ (pc = "done" /\ op = "deep_copy" /\ Len(heap) <= MaxHeap)
    /\ \E id \in DOMAIN heap, recurse \in BOOLEAN :
          LET r == deep_copy(heap, id, recurse)
          IN  Done("deep_copy", [node |-> id, recurse |-> recurse],
                   Ok(<<NodeItem(r.id)>>, Store(r.heap, <<>>)))

\* serialize(item) of a node of the input
SerializeInput ==
    /\ pc = "idle"
    /\ \E id \in InputNodes(heap) :
          Done("serialize", [shape |-> "input", node |-> id, value |-> <<>>],
               Ok(<<Str(serialize(heap, id))>>, Store(heap, <<>>)))

\* serialize(item) of a node made with a value
SerializeBuilt ==
    /\ pc = "idle"
    /\ \E shape \in Shapes, s \in Values :
          LET b == Built(heap, shape, s)
          IN  Done("serialize", [shape |-> shape, node |-> b.id, value |-> s],
                   Ok(<<Str(serialize(b.heap, b.id))>>, Store(b.heap, <<>>)))

\* What the caller of parse_module sees
ParseOutcome(r, st) == IF r.err = "" THEN Ok(<<r.val>>, st) ELSE Fail(r.err, st)

\* Parser(text).parse_module()
ParseModule ==
    /\ pc = "idle"
    /\ \E text \in SourceTexts :
          Done("parse_module", [text |-> text],
               ParseOutcome(Parser(text), Store(heap, <<>>)))

\* Parser(text).parse_module() of an operator expression
ParseOperators ==
    /\ pc = "idle"
    /\ \E text \in OperatorTexts :
          Done("parse_module", [text |-> text],
               ParseOutcome(Parser(text), Store(heap, <<>>)))

\* eval_module(module, doc) on the Module of a source text
EvalModule ==
    /\ pc = "idle"
    /\ \E decls \in Declarations_var, expr \in ModuleExprs :
          Done("eval_module",
               [decls |-> decls, expr |-> expr,
                module |-> ModuleOf(decls, expr, EmptyModule)],
               eval_module(ModuleOf(decls, expr, EmptyModule), NodeItem(1),
                           Store(heap, <<>>)))

\* Calls of peek and next on Lexer(text)
LexTokens ==
    /\ pc = "idle"
    /\ \E text \in LexerTexts, calls \in LexerSchedules :
          Done("lexer", [text |-> text, calls |-> calls],
               Ok(LexerCalls(text, Lexer(0, NoToken), calls, <<>>), Store(heap, <<>>)))

\* Parser(text).parse_module() on a name and what stands behind it
ParseLookahead ==
    /\ pc = "idle"
    /\ \E text \in LookaheadTexts :
          Done("parse_module", [text |-> text],
               ParseOutcome(Parser(text), Store(heap, <<>>)))

Next ==
    \/ EvalBinary
    \/ LexTokens
    \/ ParseLookahead
    \/ EvalModule
    \/ ParseModule
    \/ ParseOperators
    \/ EvalScoped
    \/ SerializeInput
    \/ SerializeBuilt
    \/ DeepCopy
    \/ ApplyStep
    \/ \E family \in EvalFamilies : EvalExpr(family)
    \/ \E family \in CallFamilies : CallFunction(family)
    \/ Return

Spec == Init /\ [][Next]_vars

SpecBinary == Init /\ [][EvalBinary \/ Return]_vars

SpecStep == Init /\ [][ApplyStep \/ Return]_vars

SpecGroup == Init /\ [][EvalExpr("group") \/ Return]_vars

SpecAndOr == Init /\ [][EvalExpr("andor") \/ Return]_vars

SpecFor == Init /\ [][EvalExpr("for") \/ Return]_vars

SpecMatch == Init /\ [][EvalExpr("match") \/ Return]_vars

SpecVarRef == Init /\ [][EvalExpr("varref") \/ Return]_vars

SpecApply == Init /\ [][CallFunction("apply") \/ Return]_vars

SpecUser == Init /\ [][CallFunction("user") \/ Return]_vars

SpecDispatch == Init /\ [][CallFunction("dispatch") \/ Return]_vars

SpecSort == Init /\ [][CallFunction(N_sort) \/ Return]_vars

SpecDistinct == Init /\ [][CallFunction(N_distinct) \/ Return]_vars

SpecGroupBy == Init /\ [][CallFunction(N_groupBy) \/ Return]_vars

SpecSerialize == Init /\ [][SerializeInput \/ SerializeBuilt \/ Return]_vars

SpecCopy == Init /\ [][DeepCopy \/ Return]_vars

SpecTrees == Init /\ [][DeepCopy \/ EvalExpr("construct") \/ Return]_vars

SpecLexer == Init /\ [][LexTokens \/ ParseLookahead \/ Return]_vars

SpecDynamic == Init /\ [][EvalExpr("dynamic") \/ Return]_vars

SpecPosition == Init /\ [][EvalExpr("position") \/ Return]_vars

SpecRoot == Init /\ [][EvalExpr("root") \/ Return]_vars

SpecEval == Init /\ [][(\E family \in EvalFamilies : EvalExpr(family)) \/ Return]_vars

SpecParse == Init /\ [][ParseModule \/ EvalExpr("parsed") \/ Return]_vars

SpecOperators == Init /\ [][ParseOperators \/ Return]_vars

SpecLast == Init /\ [][CallFunction("last") \/ Return]_vars

SpecScoped == Init /\ [][EvalScoped \/ Return]_vars

SpecModule == Init /\ [][EvalModule \/ Return]_vars

\* ------------------------------------------------------------ claims

\* C1: for all operand sequences L and R, `=` gives true exactly when
\* to_string(L) equals to_string(R) and `!=` gives the negation, and the
\* comparison raises no error.
C1_EqualityIsStringEquality ==
    (pc = "done" /\ op = "eval_binary" /\ input.op \in {"=", "!="}) =>
        /\ error = ""
        /\ result = <<Bool((to_string(heap, input.left) = to_string(heap, input.right))
                           = (input.op = "="))>>

\* result[i] is a synthesized attribute node with this name and value
IsAttrNode(i, name, value) ==
    /\ isNode(result[i])
    /\ heap[result[i].n].kind = "attribute"
    /\ heap[result[i].n].name = name
    /\ heap[result[i].n].value = value

\* C2: apply_step on axis attr gives, for a wildcard test on an element, one
\* attribute node per attribute in insertion order; for a name test the one
\* attribute node of that name if present, else nothing; and nothing for a
\* node that is no element.
C2_AttrAxis ==
    (pc = "done" /\ op = "apply_step" /\ input.step.axis = "attr"
     /\ input.step.predicates = <<>> /\ Len(input.items) = 1
     /\ isNode(input.items[1])
     /\ input.step.test.kind \in {"wildcard", "name"}) =>
        LET node == heap[input.items[1].n]
            test == input.step.test
        IN  /\ error = ""
            /\ (node.kind # "element" => result = <<>>)
            /\ (node.kind = "element" /\ test.kind = "wildcard" =>
                  /\ Len(result) = Len(node.attrs)
                  /\ \A i \in 1..Len(node.attrs) :
                        IsAttrNode(i, node.attrs[i][1], node.attrs[i][2]))
            /\ (node.kind = "element" /\ test.kind = "name" =>
                  IF HasAttr(node.attrs, test.name)
                  THEN /\ Len(result) = 1
                       /\ IsAttrNode(1, test.name, AttrGet(node.attrs, test.name))
                  ELSE result = <<>>)

\* The distinct to_string keys of the grouped items, in order of first
\* occurrence, as strings.
GroupKeys ==
    LET d == Distinct(heap, input.ctx.variables[S_items], {}, <<>>)
    IN  [i \in 1..Len(d) |-> Str(to_string(heap, <<d[i]>>))]

\* C3: string(lookup(g, "key")) of a group g of groupBy is the complete key
\* string of the group, one distinct name per distinct key, and
\* sort(groups, groupKey) orders the groups by that name.
C3_GroupKeyIsWholeKey ==
    (pc = "done" /\ op = "eval_expr" /\ input.family = "group") =>
        /\ error = ""
        /\ Len(result) = Len(GroupKeys)
        /\ {result[i] : i \in 1..Len(result)} = {GroupKeys[i] : i \in 1..Len(GroupKeys)}
        /\ (input.expr.seq.name = N_groupBy => result = GroupKeys)
        /\ (input.expr.seq.name = N_sort =>
              \A i \in 1..Len(result), j \in 1..Len(result) :
                 i < j => StrLess(result[i].s, result[j].s))

\* to_boolean of the left operand of an and/or input
LeftTrue == input.expr.left.type = "Literal" /\ Truthy(input.expr.left.value)

\* The left operand decides the result.
LeftDecides == IF input.expr.op = "and" THEN ~LeftTrue ELSE LeftTrue

\* What evaluating the left operand alone leaves in the log.
LeftLog == IF input.expr.left.type = "FuncCall" THEN <<N_seq>> ELSE <<>>

\* C4: in A and B, B is not evaluated when to_boolean(A) is false and the
\* result is [false]; in A or B, B is not evaluated when to_boolean(A) is
\* true and the result is [true]; so an error of B does not occur then, and
\* it does occur when A does not decide.
C4_ShortCircuit ==
    (pc = "done" /\ op = "eval_expr" /\ input.family = "andor") =>
        LET b == input.expr.right
        IN  IF LeftDecides
            THEN /\ error = ""
                 /\ result = <<Bool(input.expr.op = "or")>>
                 /\ log = LeftLog
            ELSE IF b.type = "FuncCall" /\ b.name = F_u
                 THEN error = "XFST0003" /\ log = Append(LeftLog, F_u)
            ELSE IF b.type = "FuncCall"
                 THEN error = "" /\ result = <<Bool(FALSE)>>
                      /\ log = Append(LeftLog, b.name)
            ELSE error = "" /\ result = <<Bool(Truthy(b.value))>> /\ log = LeftLog

\* false and u() gave [false], u being undefined
C4_Witness ==
    /\ pc = "done" /\ op = "eval_expr" /\ input.family = "andor"
    /\ input.expr = BinaryOp("and", Literal(Bool(FALSE)), FuncCall(F_u, <<>>))
    /\ error = "" /\ result = <<Bool(FALSE)>>

\* The literals of the seq(...) a for input iterates.
ForItems == [i \in 1..Len(input.expr.seq.args) |-> input.expr.seq.args[i].value]

\* The filter of a for input on the i-th item.
ForKeeps(i) ==
    LET w == input.expr.where
    IN  IF w = NoExpr THEN TRUE
        ELSE IF w = W_notLast THEN i < Len(ForItems)
        ELSE ForItems[i].n > 1

\* The body of a for input on the i-th item.
ForBody(i) ==
    LET body == input.expr.body
    IN  IF body = PosLast THEN <<Num(i), Num(Len(ForItems))>>
        ELSE IF body = FuncCall(N_position, <<>>) THEN <<Num(i)>>
        ELSE <<ForItems[i]>>

RECURSIVE ForExpected(_)
\* The body results of the kept items among the first i, in item order.
ForExpected(i) ==
    IF i = 0 THEN <<>>
    ELSE ForExpected(i - 1) \o (IF ForKeeps(i) THEN ForBody(i) ELSE <<>>)

\* C5: a for expression over n items evaluates filter and body of the i-th
\* item with context item = item, name = [item], position = i, last = n,
\* and concatenates the body results of the items whose filter holds.
C5_ForPositional ==
    (pc = "done" /\ op = "eval_expr" /\ input.family = "for") =>
        /\ error = ""
        /\ result = ForExpected(Len(ForItems))

\* for n in seq(1,2,3) where n > 1 return seq(position(), last()) gave
\* [2,3,3,3]
C5_Witness ==
    /\ pc = "done" /\ op = "eval_expr" /\ input.family = "for"
    /\ input.expr = ForExpr(V_n, SeqExpr(<<Num(1), Num(2), Num(3)>>), W_nGt1, PosLast)
    /\ result = <<Num(2), Num(3), Num(3), Num(3)>>

\* The least case or rule of `cases` (pairs or records headed by a pattern
\* p(j)) that matches the item, 0 when none does.
LeastMatching(n, matches(_)) ==
    IF \E j \in 1..n : matches(j)
    THEN CHOOSE j \in 1..n : matches(j) /\ \A k \in 1..(j - 1) : ~matches(k)
    ELSE 0

\* What the variable v holds in the body of a case with this pattern.
BoundV(pattern, item) ==
    IF pattern.type = "ElementPattern" /\ pattern.var = V_v
    THEN NodeItems(heap[item.n].children) ELSE <<>>

\* The targets of a match input.
MatchTargets == input.ctx.variables[S_items]

\* The case chosen for the i-th target of a match input.
MatchCase(i) ==
    LET cases == input.expr.cases
        matches(j) == match_pattern(heap, cases[j][1], MatchTargets[i]).matched
    IN  LeastMatching(Len(cases), matches)

\* The output for the i-th target: the body of the chosen case, else of
\* the default.
MatchOut(i) ==
    IF MatchCase(i) = 0 THEN <<Num(0), MatchTargets[i]>>
    ELSE <<Num(MatchCase(i)), MatchTargets[i]>>
         \o BoundV(input.expr.cases[MatchCase(i)][1], MatchTargets[i])

RECURSIVE MatchExpected(_)
MatchExpected(i) == IF i = 0 THEN <<>> ELSE MatchExpected(i - 1) \o MatchOut(i)

\* Some target matches no case and there is no default.
MatchFails ==
    /\ input.expr.default = NoExpr
    /\ \E i \in 1..Len(MatchTargets) : MatchCase(i) = 0

\* C6: a match expression takes the targets in order and evaluates, for
\* each, only the body of the first case whose pattern matches, with the
\* pattern's bindings and the target as context item, the default body
\* when no case matches, and fails with XFDY0001 without a partial result
\* when no case matches and there is no default.
C6_MatchFirstCase ==
    (pc = "done" /\ op = "eval_expr" /\ input.family = "match") =>
        IF MatchFails
        THEN /\ error = "XFDY0001"
             /\ result = <<>>
        ELSE /\ error = ""
             /\ result = MatchExpected(Len(MatchTargets))
             /\ log = [i \in 1..Len(MatchTargets) |-> N_seq]

\* A target that the second case also matches went to the first case,
\* which bound v to the children of the element.
C6_Witness ==
    /\ pc = "done" /\ op = "eval_expr" /\ input.family = "match"
    /\ Len(input.expr.cases) = 2
    /\ input.expr.cases[1][1] = ElementPattern(<<"c">>, V_v, NoPattern)
    /\ input.expr.cases[2][1] = WildcardPattern
    /\ Len(MatchTargets) > 0
    /\ isNode(MatchTargets[1]) /\ heap[MatchTargets[1].n].name = <<"c">>
    /\ error = ""
    /\ Len(result) > 2 /\ result[1] = Num(1)

\* The targets of an apply input.
ApplyTargets == input.args[1]

\* The rules of the rule set an apply input names ("main" when it names
\* none), none when the rule set does not exist.
ApplyRules ==
    LET named == Len(input.args) > 1 /\ input.args[2] # <<>>
        ruleset == IF named THEN input.args[2][1].s ELSE S_main
    IN  IF ruleset \in DOMAIN input.ctx.rules THEN input.ctx.rules[ruleset] ELSE <<>>

\* The rule chosen for the i-th target of an apply input.
ApplyRule(i) ==
    LET matches(j) == match_pattern(heap, ApplyRules[j].pattern, ApplyTargets[i]).matched
    IN  LeastMatching(Len(ApplyRules), matches)

\* The output of the body seq(j, ., v) of the chosen rule.
ApplyOut(i) ==
    LET rule == ApplyRules[ApplyRule(i)]
    IN  <<rule.body.args[1].value, ApplyTargets[i]>>
        \o BoundV(rule.pattern, ApplyTargets[i])

RECURSIVE ApplyExpected(_)
ApplyExpected(i) == IF i = 0 THEN <<>> ELSE ApplyExpected(i - 1) \o ApplyOut(i)

\* C7: apply walks the items in order and evaluates, for each, only the
\* body of the first rule of the named rule set (default main) whose
\* pattern matches, with the item as context item and the bindings added;
\* when an item matches no rule (also for an empty or missing rule set)
\* the call fails with XFDY0001 and returns nothing.
C7_ApplyFirstRule ==
    (pc = "done" /\ op = "call_function" /\ input.family = "apply") =>
        IF \E i \in 1..Len(ApplyTargets) : ApplyRule(i) = 0
        THEN /\ error = "XFDY0001"
             /\ result = <<>>
        ELSE /\ error = ""
             /\ result = ApplyExpected(Len(ApplyTargets))
             /\ log = <<N_apply>> \o [i \in 1..Len(ApplyTargets) |-> N_seq]

\* An element c that the second rule of main also matches went to the
\* first rule, and the string after it to the second rule.
C7_Witness ==
    /\ pc = "done" /\ op = "call_function" /\ input.family = "apply"
    /\ Len(input.args) = 1
    /\ Len(ApplyRules) = 2
    /\ ApplyRules[1].pattern = ElementPattern(<<"c">>, V_v, NoPattern)
    /\ ApplyRules[2].pattern = WildcardPattern
    /\ Len(ApplyTargets) = 2
    /\ isNode(ApplyTargets[1]) /\ heap[ApplyTargets[1].n].name = <<"c">>
    /\ ApplyTargets[2] = Str(<<"a">>)
    /\ error = ""
    /\ result[1] = Num(1) /\ result[Len(result) - 1] = Num(2)

\* The parameters of the function an input of the family user calls.
UserParams == input.ctx.functions[F_f].params

\* The value the caller's context gives a default.
DefaultVal(d) == IF d.type = "Literal" THEN <<d.value>> ELSE input.ctx.variables[d.name]

\* The value of the j-th parameter.
ParamVal(j) ==
    IF j <= Len(input.args) THEN input.args[j] ELSE DefaultVal(UserParams[j].default)

\* What seq(a, b) gives in the body: a parameter where there is one of
\* that name.
UserExpected ==
    (IF Len(UserParams) >= 1 THEN ParamVal(1) ELSE input.ctx.variables[V_a])
    \o (IF Len(UserParams) >= 2 THEN ParamVal(2) ELSE <<>>)

\* C8: a user function called with k arguments and p parameters fails with
\* XFDY0002 if k > p; else binds the first k parameters to the arguments
\* and each remaining one to its default evaluated in the caller's context;
\* and fails with XFDY0002, the body not evaluated, if a remaining parameter
\* has no default.
C8_UserCall ==
    (pc = "done" /\ op = "call_function" /\ input.family = "user") =>
        IF Len(input.args) > Len(UserParams)
        THEN error = "XFDY0002" /\ result = <<>> /\ log = <<F_f>>
        ELSE IF \E j \in (Len(input.args) + 1)..Len(UserParams) :
                   UserParams[j].default = NoExpr
             THEN error = "XFDY0002" /\ result = <<>> /\ log = <<F_f>>
        ELSE error = "" /\ result = UserExpected /\ log = <<F_f, N_seq>>

\* def f(a, b := a) called as f(1) where the caller's a is "A" gave (1, "A").
C8_Witness ==
    /\ pc = "done" /\ op = "call_function" /\ input.family = "user"
    /\ UserParams = <<Param(V_a, NoExpr), Param(V_b, VarRef(V_a))>>
    /\ input.args = <<<<Num(1)>>>>
    /\ result = <<Num(1), Str(<<"A">>)>>

\* C9: a call goes to the user function when the name is in the function
\* table, even when a built-in has that name, else to the built-in of
\* exactly that name, and fails with XFST0003 when the name is in neither.
C9_Dispatch ==
    (pc = "done" /\ op = "call_function" /\ input.family = "dispatch") =>
        IF input.name \in DOMAIN input.ctx.functions
        THEN /\ log = <<input.name>>
             /\ IF input.args = <<>>
                THEN error = "" /\ result = <<Str(<<"u", "s", "e", "r">>)>>
                ELSE error = "XFDY0002"
        ELSE IF input.name \in BuiltinNames
             THEN /\ error # "XFST0003"
                  /\ input.name = N_count =>
                        error = "" /\ result = <<Num(Len(Arg0(input.args)))>>
        ELSE error = "XFST0003" /\ result = <<>>

\* count(), count being also a user function, gave the user function's value.
C9_Witness ==
    /\ pc = "done" /\ op = "call_function" /\ input.family = "dispatch"
    /\ input.name = N_count
    /\ N_count \in DOMAIN input.ctx.functions
    /\ result = <<Str(<<"u", "s", "e", "r">>)>>

\* The element children of the context item that bear the name looked up.
NamedChildren ==
    LET node == heap[input.ctx.context_item.n]
    IN  NodeItems(SelectSeq(node.children,
                  LAMBDA c : heap[c].kind = "element" /\ heap[c].name = input.expr.name))

\* C10 as claimed: VarRef resolves as (1) the variable, (2) else a function
\* reference, (3) else, if the context item is an element, its child
\* elements of that name, (4) else the empty sequence; it never raises.
C10_VarRefOrder ==
    (pc = "done" /\ op = "eval_expr" /\ input.family = "varref") =>
        LET name == input.expr.name
            item == input.ctx.context_item
        IN  /\ error = ""
            /\ result =
                 IF name \in DOMAIN input.ctx.variables
                 THEN input.ctx.variables[name]
                 ELSE IF name \in DOMAIN input.ctx.functions
                      THEN <<FunctionRef(name)>>
                 ELSE IF isNode(item) /\ heap[item.n].kind = "element"
                      THEN NamedChildren
                 ELSE <<>>

\* C10 as amended: step (3) applies when the context item is any node, the
\* document node included.
C10_VarRefOrderAnyNode ==
    (pc = "done" /\ op = "eval_expr" /\ input.family = "varref") =>
        LET name == input.expr.name
            item == input.ctx.context_item
        IN  /\ error = ""
            /\ result =
                 IF name \in DOMAIN input.ctx.variables
                 THEN input.ctx.variables[name]
                 ELSE IF name \in DOMAIN input.ctx.functions
                      THEN <<FunctionRef(name)>>
                 ELSE IF isNode(item) THEN NamedChildren
                 ELSE <<>>

\* A name bound as a variable and as a function, on an element with a child
\* of that name, gave the variable.
C10_Witness ==
    /\ pc = "done" /\ op = "eval_expr" /\ input.family = "varref"
    /\ input.expr.name \in DOMAIN input.ctx.variables
    /\ input.expr.name \in DOMAIN input.ctx.functions
    /\ isNode(input.ctx.context_item)
    /\ NamedChildren # <<>>
    /\ result = <<Num(7)>>

\* C11: an evaluation leaves every node of the input tree as it was (kind,
\* name, value, attributes, children, parent), and no node made during it
\* has an input node among its children.
C11_InputUnchanged ==
    [][(pc = "idle" /\ pc' = "done") =>
          /\ \A i \in InputNodes(heap) : heap'[i] = heap[i]
          /\ \A j \in DOMAIN heap' :
                j \notin InputNodes(heap) =>
                   \A k \in 1..Len(heap'[j].children) :
                      heap'[j].children[k] \notin InputNodes(heap)]_vars

\* A constructor whose content is the context item, an input element with
\* children, gave an element whose child is a new node of the same name,
\* with as many children, whose parent is the new element.
C11_Witness ==
    /\ pc = "done" /\ op = "eval_expr" /\ input.family = "construct"
    /\ input.expr.contents = <<Dot>>
    /\ error = ""
    /\ LET item == input.ctx.context_item.n
           made == result[1].n
           child == heap[made].children[1]
       IN  /\ heap[item].kind = "element"
           /\ heap[item].children # <<>>
           /\ heap[made].name = S_o
           /\ Len(heap[made].children) = 1
           /\ child \notin InputNodes(heap)
           /\ heap[child].name = heap[item].name
           /\ Len(heap[child].children) = Len(heap[item].children)
           /\ heap[child].parent = made

\* The nodes of the subtree of a node, itself included.
Subtree(h, id) == {id} \cup {x \in DOMAIN h : \E k \in 1..Len(iter_descendants(h, id)) :
                                                 iter_descendants(h, id)[k] = x}

RECURSIVE StructEq(_, _, _)
\* Two subtrees are structurally equal: kind, name, value and attributes
\* agree, and so do the children, one by one.
StructEq(h, a, b) ==
    /\ h[a].kind = h[b].kind
    /\ h[a].name = h[b].name
    /\ h[a].value = h[b].value
    /\ h[a].attrs = h[b].attrs
    /\ Len(h[a].children) = Len(h[b].children)
    /\ \A k \in 1..Len(h[a].children) : StructEq(h, h[a].children[k], h[b].children[k])

\* C12: deep_copy gives a new node of the same kind, name and value, with
\* an attrs dict of its own holding the same attributes, and no parent;
\* with recurse its subtree is structurally equal to the original's, made
\* of new nodes only, each copied descendant under its copied parent;
\* without recurse it has no children.
C12_DeepCopy ==
    [][(pc' = "done" /\ op' = "deep_copy") =>
          LET orig == input'.node
              copy == result'[1].n
          IN  /\ copy \notin DOMAIN heap
              /\ heap'[copy].kind = heap[orig].kind
              /\ heap'[copy].name = heap[orig].name
              /\ heap'[copy].value = heap[orig].value
              /\ heap'[copy].attrs = heap[orig].attrs
              /\ \A m \in DOMAIN heap : heap'[copy].dict # heap[m].dict
              /\ heap'[copy].parent = 0
              /\ IF input'.recurse
                 THEN /\ StructEq(heap', copy, orig)
                      /\ Subtree(heap', copy) \cap DOMAIN heap = {}
                      /\ \A n \in Subtree(heap', copy) :
                            \A k \in 1..Len(heap'[n].children) :
                               heap'[heap'[n].children[k]].parent = n
                 ELSE heap'[copy].children = <<>>]_vars

\* An element that has a parent, attributes and a grandchild was copied
\* with recurse.
C12_Witness ==
    /\ pc = "done" /\ op = "deep_copy"
    /\ input.recurse
    /\ LET orig == input.node
           copy == result[1].n
       IN  /\ heap[orig].parent # 0
           /\ heap[orig].attrs # <<>>
           /\ \E k \in DOMAIN heap[orig].children :
                 heap[heap[orig].children[k]].children # <<>>
           /\ heap[copy].parent = 0
           /\ StructEq(heap, copy, orig)
           /\ Subtree(heap, copy) \cap Subtree(heap, orig) = {}

StartsWith(s, prefix) ==
    Len(s) >= Len(prefix) /\ SubSeq(s, 1, Len(prefix)) = prefix

EndsWith(s, suffix) ==
    Len(s) >= Len(suffix) /\ SubSeq(s, Len(s) - Len(suffix) + 1, Len(s)) = suffix

RECURSIVE Decode(_, _)
\* The string an escaped value stands for: the entities read left to
\* right, &quot; among them in an attribute value.
Decode(s, attr) ==
    IF s = <<>> THEN <<>>
    ELSE IF StartsWith(s, E_amp) THEN <<"&">> \o Decode(SubSeq(s, 6, Len(s)), attr)
    ELSE IF StartsWith(s, E_lt) THEN <<"<">> \o Decode(SubSeq(s, 5, Len(s)), attr)
    ELSE IF StartsWith(s, E_gt) THEN <<">">> \o Decode(SubSeq(s, 5, Len(s)), attr)
    ELSE IF attr /\ StartsWith(s, E_quot)
         THEN <<"\"">> \o Decode(SubSeq(s, 7, Len(s)), attr)
    ELSE <<Head(s)>> \o Decode(Tail(s), attr)

\* An escaped text value of s: no raw < or >, and it decodes to s.
EscapedText(e, s) ==
    /\ \A k \in 1..Len(e) : e[k] \notin {"<", ">"}
    /\ Decode(e, FALSE) = s

\* An escaped attribute value of s: no raw <, > or ", and it decodes to s.
EscapedAttr(e, s) ==
    /\ \A k \in 1..Len(e) : e[k] \notin {"<", ">", "\""}
    /\ Decode(e, TRUE) = s

\* The two input documents as they are written.
Written ==
    {<<"<", "r", " ", "a", "=", "\"", "1", "\"", " ", "b", "=", "\"", "2", "\"",
       ">", "<", "c", " ", "i", "d", "=", "\"", "c", "1", "\"", ">", "a", "<",
       "/", "c", ">", "<", "c", ">", "<", "s", "/", ">", "1", "<", "/", "c",
       ">", "<", "d", ">", "g", "0", "<", "/", "d", ">", "<", "/", "r", ">">>,
     <<"<", "c", " ", "i", "d", "=", "\"", "x", "\"", ">", "g", "1", "<", "/",
       "c", ">">>}

\* C13: a serialized text value has no raw < or > and decodes to the
\* value, a serialized attribute value has no raw <, > or " either and
\* decodes to the value; an element without children is written
\* <name attrs/>, one with children <name attrs>children</name>, the
\* attributes in insertion order.
C13_Serialize ==
    (pc = "done" /\ op = "serialize") =>
        LET out == result[1].s
            s == input.value
            open == <<"<", "o", " ", "b", "=", "\"">>
            close == CHOOSE q \in 7..(Len(out) + 1) :
                        /\ q <= Len(out) => out[q] = "\""
                        /\ \A k \in 7..(q - 1) : out[k] # "\""
        IN  /\ input.shape = "text" => EscapedText(out, s)
            /\ input.shape = "attribute" => EscapedAttr(out, s)
            /\ input.shape = "empty" =>
                  /\ StartsWith(out, open)
                  /\ EndsWith(out, <<"\"", " ", "a", "=", "\"", "x", "\"", "/", ">">>)
                  /\ EscapedAttr(SubSeq(out, 7, Len(out) - 9), s)
            /\ input.shape = "element" =>
                  /\ StartsWith(out, open)
                  /\ EscapedAttr(SubSeq(out, 7, close - 1), s)
                  /\ SubSeq(out, close, close + 1) = <<"\"", ">">>
                  /\ EscapedText(SubSeq(out, close + 2, Len(out) - 4), s)
                  /\ EndsWith(out, <<"<", "/", "o", ">">>)
            /\ input.shape = "input" =>
                  /\ heap[input.node].kind = "document" => out \in Written
                  /\ heap[input.node].kind = "element" =>
                        /\ StartsWith(out, <<"<">> \o heap[input.node].name)
                        /\ IF heap[input.node].children = <<>>
                           THEN out = <<"<">> \o heap[input.node].name \o <<"/", ">">>
                           ELSE EndsWith(out, <<"<", "/">> \o heap[input.node].name
                                               \o <<">">>)

\* The value <&lt; was written as the attribute and as the text of an
\* element: &lt;&amp;lt; both times.
C13_Witness ==
    /\ pc = "done" /\ op = "serialize"
    /\ input.shape = "element"
    /\ input.value = <<"<", "&", "l", "t", ";">>
    /\ result[1].s = <<"<", "o", " ", "b", "=", "\"">> \o E_lt \o E_amp
                     \o <<"l", "t", ";", "\"", ">">> \o E_lt \o E_amp
                     \o <<"l", "t", ";", "<", "/", "o", ">">>

\* The sequence a collection call is about.
CollSeq == input.args[1]

\* Whether a collection call names a key function.
Keyed == Len(input.args) > 1 /\ input.args[2] # <<>>

\* The key string of an item: to_string of the key function applied to it
\* when the call names one, else to_string of the item.
KeyString(item) ==
    IF Keyed
    THEN LET r == call_function(input.args[2][1].s, <<<<item>>>>, input.ctx,
                                Store(heap, <<>>))
         IN  to_string(r.st.heap, r.val)
    ELSE to_string(heap, <<item>>)

Perms(n) == {f \in [1..n -> 1..n] : \A i, j \in 1..n : i # j => f[i] # f[j]}

\* C14: sort gives a permutation of seq in nondecreasing order of the key
\* strings, compared as strings, the items of equal keys in their input
\* order.
C14_SortStable ==
    (pc = "done" /\ op = "call_function" /\ input.family = N_sort) =>
        /\ error = ""
        /\ Len(result) = Len(CollSeq)
        /\ \E f \in Perms(Len(CollSeq)) :
              /\ \A k \in 1..Len(result) : result[k] = CollSeq[f[k]]
              /\ \A k \in 1..(Len(result) - 1) :
                    \/ StrLess(KeyString(CollSeq[f[k]]), KeyString(CollSeq[f[k + 1]]))
                    \/ /\ KeyString(CollSeq[f[k]]) = KeyString(CollSeq[f[k + 1]])
                       /\ f[k] < f[k + 1]

\* sort(("2", 10, 2)) gave (10, "2", 2): "10" before "2", and the string
\* "2" still before the number 2.
C14_Witness ==
    /\ pc = "done" /\ op = "call_function" /\ input.family = N_sort
    /\ input.args = <<<<Str(<<"2">>), Num(10), Num(2)>>>>
    /\ result = <<Num(10), Str(<<"2">>), Num(2)>>

\* The positions of seq whose item is the first of its to_string key.
FirstOfKey(seq) ==
    {k \in 1..Len(seq) :
        \A j \in 1..(k - 1) : to_string(heap, <<seq[j]>>) # to_string(heap, <<seq[k]>>)}

\* The items of seq at the positions of a set, in order.
RECURSIVE Kept(_, _, _)
Kept(seq, keep, k) ==
    IF k > Len(seq) THEN <<>>
    ELSE (IF k \in keep THEN <<seq[k]>> ELSE <<>>) \o Kept(seq, keep, k + 1)

\* C15: distinct gives the first item of each to_string key, in order of
\* first occurrence: no two result items have the same key, every key of
\* seq is the key of a result item, and distinct of the result is the
\* result.
C15_Distinct ==
    (pc = "done" /\ op = "call_function" /\ input.family = N_distinct) =>
        /\ error = ""
        /\ result = Kept(CollSeq, FirstOfKey(CollSeq), 1)
        /\ \A i, j \in 1..Len(result) :
              i # j => to_string(heap, <<result[i]>>) # to_string(heap, <<result[j]>>)
        /\ \A k \in 1..Len(CollSeq) : \E i \in 1..Len(result) :
              to_string(heap, <<result[i]>>) = to_string(heap, <<CollSeq[k]>>)
        /\ call_function(N_distinct, <<result>>, input.ctx, Store(heap, <<>>)).val = result

\* distinct((2, "a", "2")) gave (2, "a"): the string "2" has the key of
\* the number 2 before it.
C15_Witness ==
    /\ pc = "done" /\ op = "call_function" /\ input.family = N_distinct
    /\ CollSeq = <<Num(2), Str(<<"a">>), Str(<<"2">>)>>
    /\ result = <<Num(2), Str(<<"a">>)>>

\* The positions of seq whose item is the first of its key string.
FirstOfKeyString(seq) ==
    {k \in 1..Len(seq) :
        \A j \in 1..(k - 1) : KeyString(seq[j]) # KeyString(seq[k])}

\* The positions of seq whose item has the key string of the item at p.
SameKey(seq, p) == {k \in 1..Len(seq) : KeyString(seq[k]) = KeyString(seq[p])}

\* The g-th smallest member of a set of positions.
Nth(S, g) == CHOOSE p \in S : Cardinality({q \in S : q < p}) = g - 1

RECURSIVE SumLen(_)
SumLen(groups) ==
    IF groups = <<>> THEN 0 ELSE Len(Head(groups).m[2].items) + SumLen(Tail(groups))

\* C16: groupBy gives one {key, items} map per key string, in order of the
\* key's first occurrence; the items of a group are the items of seq of
\* that key, in input order, so that the groups partition seq and their
\* sizes sum to its length.
C16_GroupByPartition ==
    (pc = "done" /\ op = "call_function" /\ input.family = N_groupBy
     /\ Len(input.args) >= 2) =>
        LET firsts == FirstOfKeyString(CollSeq)
        IN  /\ error = ""
            /\ Len(result) = Cardinality(firsts)
            /\ \A g \in 1..Len(result) :
                  LET p == Nth(firsts, g)
                  IN  /\ result[g].k = "map"
                      /\ Len(result[g].m) = 2
                      /\ result[g].m[1] = StrEntry(S_key, KeyString(CollSeq[p]))
                      /\ result[g].m[2] =
                            ListEntry(S_items, Kept(CollSeq, SameKey(CollSeq, p), 1))
            /\ SumLen(result) = Len(CollSeq)
            /\ \A k \in 1..Len(CollSeq) :
                  Cardinality({g \in 1..Len(result) :
                                  \E j \in 1..Len(result[g].m[2].items) :
                                     result[g].m[2].items[j] = CollSeq[k]
                                     /\ result[g].m[1].str = KeyString(CollSeq[k])}) = 1

\* groupBy(("a", "b", "a"), ()) gave {a: ("a", "a")} and {b: ("b")}.
C16_Witness ==
    /\ pc = "done" /\ op = "call_function" /\ input.family = N_groupBy
    /\ input.args = <<<<Str(<<"a">>), Str(<<"b">>), Str(<<"a">>)>>, <<>>>>
    /\ Len(result) = 2
    /\ result[1].m[2].items = <<Str(<<"a">>), Str(<<"a">>)>>
    /\ result[2].m[2].items = <<Str(<<"b">>)>>

\* C17: for every source text parse_module returns a Module or fails with
\* a SyntaxError (the one carrying XFST0005 when the prologue's version
\* string is not "2.0"); no other kind of error escapes, number tokens with
\* more than one point and \u escapes without four hex digits included.
C17_OnlySyntaxErrors ==
    (pc = "done" /\ op = "parse_module") =>
        /\ error \in {"", "SyntaxError", "XFST0005"}
        /\ error = "" =>
              /\ Len(result) = 1
              /\ DOMAIN result[1] =
                    {"functions", "rules", "vars", "namespaces", "imports", "expr"}
        /\ StartsWith(input.text, UnsupportedPrologue) => error = "XFST0005"

\* The names among the pieces of paths
PathNames == {n \in PathPieces : IsAlpha(Head(n))}

\* The source texts @name... whose rest is well formed: .@name... parses
AtPaths ==
    {text \in PathTexts :
        /\ \E n \in PathNames : StartsWith(text, <<"@">> \o n)
        /\ Parser(<<".">> \o text).err = ""}

\* C18: an expression that begins with @name is accepted as a primary and
\* parses to a path expression on the context item whose first step has
\* axis attr and the name test name.
C18_AtNameIsPath ==
    (pc = "done" /\ op = "parse_module" /\ input.text \in AtPaths) =>
        /\ error = ""
        /\ result[1].expr.type = "PathExpr"
        /\ result[1].expr.start = PathStart("context", NoneStr)
        /\ \E n \in PathNames :
              /\ StartsWith(input.text, <<"@">> \o n)
              /\ result[1].expr.steps # <<>>
              /\ result[1].expr.steps[1] = PathStep("attr", StepTest("name", n), <<>>)

\* C19: a path that begins with .. parses to a path whose first step has
\* axis parent, and evaluating .. yields the parent of the context item, or
\* the empty sequence when it has none, and never the context item itself.
C19_DotDotIsParent ==
    (/\ pc = "done" /\ op = "eval_expr" /\ "text" \in DOMAIN input
     /\ StartsWith(input.text, <<".", ".">>)) =>
        /\ input.expr.type = "PathExpr"
        /\ input.expr.steps # <<>>
        /\ input.expr.steps[1].axis = "parent"
        /\ input.text = <<".", ".">> =>
              LET node == input.ctx.context_item.n
              IN  /\ error = ""
                  /\ result = IF heap[node].parent = 0 THEN <<>>
                              ELSE <<NodeItem(heap[node].parent)>>
                  /\ result # <<input.ctx.context_item>>

\* The content {1}
P_interp == <<"{", "1", "}">>

\* The content <m/>
P_empty == <<"<", "m", "/", ">">>

\* </n>
E_n == <<"<", "/", "n", ">">>

\* The contents with the run of characters read so far entered, unless it
\* is whitespace only
WithRun(contents, run) ==
    IF StripWs(run) = <<>> THEN contents ELSE Append(contents, Text(run))

RECURSIVE ContentsOf(_, _, _)
\* The contents the pieces ps stand for: every run of characters between
\* the items is one Text
ContentsOf(ps, run, contents) ==
    IF ps = <<>> THEN WithRun(contents, run)
    ELSE IF Head(ps) = P_interp
    THEN ContentsOf(Tail(ps), <<>>,
                    Append(WithRun(contents, run), Interp(Literal(Num(1)))))
    ELSE IF Head(ps) = P_empty
    THEN ContentsOf(Tail(ps), <<>>,
                    Append(WithRun(contents, run), Constructor(<<"m">>, <<>>, <<>>)))
    ELSE ContentsOf(Tail(ps), run \o Head(ps), contents)

\* The attributes the opening tag gives
AttrsOf(open) ==
    IF open = <<"<", "n", ">">> THEN <<>> ELSE <<<<<<"a">>, Literal(Num(1))>>>>

\* C20: in <n ...>T</n> every run of characters up to the next < or { is
\* read raw, whatever its first character ("=" included), and is one Text
\* with exactly those characters, a run of whitespace only being dropped;
\* an end tag of another name is a SyntaxError.
C20_RawText ==
    (pc = "done" /\ op = "parse_module" /\ StartsWith(input.text, <<"<">>)) =>
        \A open \in OpenTags, end \in EndTags,
           ps \in SeqsUpTo(ContentPieces, MaxSource - 1) :
            input.text = open \o Concat(ps) \o end =>
                IF end = E_n
                THEN /\ error = ""
                     /\ result[1].expr =
                           Constructor(<<"n">>, AttrsOf(open), ContentsOf(ps, <<>>, <<>>))
                ELSE error = "SyntaxError"

\* The precedence ladder, lowest level first: the word of each operator and
\* its name in the tree
Ladder ==
    <<{<<W_or, "or">>},
      {<<W_and, "and">>},
      {<<<<"=">>, "=">>, <<<<"!", "=">>, "!=">>},
      {<<<<"<">>, "<">>, <<<<"<", "=">>, "<=">>, <<<<">">>, ">">>, <<<<">", "=">>, ">=">>},
      {<<<<"+">>, "+">>, <<<<"-">>, "-">>},
      {<<<<"*">>, "*">>, <<W_div, "div">>, <<W_mod, "mod">>}>>

\* The unary operators
Unaries == {<<<<"-">>, "-">>, <<W_not, "not">>}

\* The name of the operator among `table` that word is
NameIn(table, word) == (CHOOSE o \in table : o[1] = word)[2]

\* The level of a binary operator word, 0 when it is none
LevelOf(word) ==
    IF \E l \in DOMAIN Ladder : \E o \in Ladder[l] : o[1] = word
    THEN CHOOSE l \in DOMAIN Ladder : \E o \in Ladder[l] : o[1] = word
    ELSE 0

IsOperand(word) == LevelOf(word) = 0 /\ \A o \in Unaries : o[1] # word

RECURSIVE WordsFrom(_, _)
\* The words of a text, blanks between them
WordsFrom(text, word) ==
    IF text = <<>> THEN IF word = <<>> THEN <<>> ELSE <<word>>
    ELSE IF Head(text) = " "
    THEN (IF word = <<>> THEN <<>> ELSE <<word>>) \o WordsFrom(Tail(text), <<>>)
    ELSE WordsFrom(Tail(text), Append(word, Head(text)))

\* Where the binary operators stand: behind an operand
BinaryAt(ws) == {i \in 2..Len(ws) : LevelOf(ws[i]) > 0 /\ IsOperand(ws[i - 1])}

\* The last of the operators of the lowest level
RootAt(ws) ==
    CHOOSE i \in BinaryAt(ws) :
        \A j \in BinaryAt(ws) :
            \/ LevelOf(ws[j]) > LevelOf(ws[i])
            \/ LevelOf(ws[j]) = LevelOf(ws[i]) /\ j <= i

RECURSIVE LadderTree(_)
\* The tree the ladder gives the words: the root is the last operator of
\* the lowest level, unary operators stand on their operand
LadderTree(ws) ==
    IF BinaryAt(ws) # {}
    THEN BinaryOp(NameIn(Ladder[LevelOf(ws[RootAt(ws)])], ws[RootAt(ws)]),
                  LadderTree(SubSeq(ws, 1, RootAt(ws) - 1)),
                  LadderTree(SubSeq(ws, RootAt(ws) + 1, Len(ws))))
    ELSE IF Len(ws) > 1 THEN UnaryOp(NameIn(Unaries, Head(ws)), LadderTree(Tail(ws)))
    ELSE VarRef(Head(ws))

\* C21: an expression of names, binary and unary operators parses to the
\* tree of the precedence ladder or < and < equality < relational < additive
\* < multiplicative < unary < primary: an operator of a higher level stands
\* below an adjacent one of a lower level, operators of one level associate
\* to the left, and a or b and c = d + e * -f is
\* or(a, and(b, =(c, +(d, *(e, -(f)))))).
C21_PrecedenceLadder ==
    (pc = "done" /\ op = "parse_module") =>
        /\ error = ""
        /\ result[1].expr =
              IF input.text = LadderText
              THEN BinaryOp("or", VarRef(<<"a">>),
                     BinaryOp("and", VarRef(<<"b">>),
                       BinaryOp("=", VarRef(<<"c">>),
                         BinaryOp("+", VarRef(<<"d">>),
                           BinaryOp("*", VarRef(<<"e">>),
                                    UnaryOp("-", VarRef(<<"f">>)))))))
              ELSE LadderTree(WordsFrom(input.text, <<>>))

\* a - b - not c was parsed: two operators of one level and a unary one
C21_Witness ==
    /\ pc = "done" /\ op = "parse_module" /\ error = ""
    /\ input.text = <<"a", " ", "-", " ", "b", " ", "-", " ">> \o W_not \o <<" ", "c">>
    /\ result[1].expr =
          BinaryOp("-", BinaryOp("-", VarRef(<<"a">>), VarRef(<<"b">>)),
                   UnaryOp("not", VarRef(<<"c">>)))

\* C22: last called with one argument s returns the last item of s alone,
\* and the empty sequence when s is empty, whatever the enclosing iteration;
\* only last() returns the last of the enclosing iteration.
C22_LastOfSequence ==
    (pc = "done" /\ op = "call_function" /\ input.name = N_last) =>
        /\ error = ""
        /\ Len(input.args) = 1 =>
              result = IF input.args[1] = <<>> THEN <<>>
                       ELSE <<input.args[1][Len(input.args[1])]>>
        /\ input.args = <<>> =>
              result = IF input.ctx.last = NoPos THEN <<>> ELSE <<Num(input.ctx.last)>>

\* The nodes of the input: what the heap was when the operation began
InputHeap == SubSeq(heap, 1, 1 + Len(iter_descendants(heap, 1)))

\* What an expression gives alone, in the context and on the mappings the
\* operation was given
Alone(e) ==
    eval_scoped(e, input.ctx, Scope(InputHeap, input.dicts, {input.ctx.variables}, FALSE)).val

\* C23: every scoping form (let, for, match case and default, user function
\* call, path predicate, rule body) evaluates its body on a mapping it has
\* made itself: no mapping a context was built on is ever written, the
\* mappings given are afterwards what they were, and in seq(a, x, b) the
\* name x between two forms that bind x gives the outer x.
C23_ScopesAreCopies ==
    (pc = "done" /\ op = "eval_expr" /\ input.family = "scoped") =>
        /\ error = ""
        /\ ~touched
        /\ SubSeq(dicts, 1, Len(input.dicts)) = input.dicts
        /\ (input.expr.type = "FuncCall" /\ input.expr.name = N_seq) =>
              result = Alone(input.expr.args[1]) \o input.dicts[input.ctx.variables][V_x]
                       \o Alone(input.expr.args[3])

\* seq(let x := 2 return x, x, f(2)) was evaluated to 2, 1, 2, 1 on
\* mappings of its own
C23_Witness ==
    /\ pc = "done" /\ op = "eval_expr" /\ input.family = "scoped"
    /\ input.expr = FuncCall(N_seq, <<LetExpr(V_x, Literal(Num(2)), VarRef(V_x)),
                                       VarRef(V_x), FuncCall(F_f, <<Literal(Num(2))>>)>>)
    /\ result = <<Num(2), Num(1), Num(2), Num(1)>>
    /\ Len(dicts) = 3
    /\ dicts[2][V_x] = <<Num(2)>>


RECURSIVE InOrder(_, _, _)
\* The context after the declarations have been bound one after another
\* in source order, each initializer evaluated with the ones before it
InOrder(decls, ctx, st) ==
    IF decls = <<>> THEN ctx
    ELSE InOrder(Tail(decls),
                 [ctx EXCEPT !.variables =
                     Bind(@, Head(decls)[1], eval_expr(Head(decls)[2], ctx, st).val)],
                 st)

\* The context eval_module starts from
ModuleContext ==
    Context(NodeItem(1), EmptyDict, EmptyDict, EmptyDict, NoPos, NoPos)

\* C24: eval_module evaluates the initializers of the module variables in
\* declaration order with the document as context item, the initializer
\* of the k-th variable seeing the values of exactly the variables
\* declared before it; the top-level expression is then evaluated with all
\* module variables bound, and the result is empty when there is none.
C24_DeclarationOrder ==
    (pc = "done" /\ op = "eval_module") =>
        /\ error = ""
        /\ result =
              IF input.expr = NoExpr THEN <<>>
              ELSE eval_expr(input.expr,
                             InOrder(input.decls, ModuleContext, Store(heap, <<>>)),
                             Store(heap, <<>>)).val


\* The nodes on an axis of a node, in axis order; the attributes, which
\* are no nodes of the tree, aside
AxisNodes(h, id, axis) ==
    CASE axis = "self" -> <<id>>
      [] axis = "parent" -> IF h[id].parent # 0 THEN <<h[id].parent>> ELSE <<>>
      [] axis = "desc_or_self" -> <<id>> \o iter_descendants(h, id)
      [] axis = "desc" -> iter_descendants(h, id)
      [] axis = "child" ->
            IF h[id].kind \in {"element", "document"} THEN h[id].children ELSE <<>>

\* A node passes a step test
Passes(h, cand, test) ==
    CASE test.kind = "node" -> TRUE
      [] test.kind = "wildcard" -> h[cand].kind = "element"
      [] test.kind = "name" -> h[cand].name = test.name
      [] OTHER -> h[cand].kind = test.kind

\* Every predicate is true under to_boolean with the node as context item
Holds(h, cand, preds) ==
    \A i \in DOMAIN preds :
        to_boolean(eval_expr(preds[i], BareCtx(NodeItem(cand)), Store(h, <<>>)).val)

\* An attribute of an element as a node: [id, heap]
AttrNode(a) == Alloc(heap, Node("attribute", a[1], a[2], <<>>, 0))

\* What a step selects from one node: nodes of the tree, or for the
\* attribute axis the attributes <<name, value>> of an element
Chosen(id, step) ==
    IF step.axis = "attr"
    THEN SelectSeq(IF heap[id].kind = "element" THEN heap[id].attrs ELSE <<>>,
                   LAMBDA a : /\ Passes(AttrNode(a).heap, AttrNode(a).id, step.test)
                              /\ Holds(AttrNode(a).heap, AttrNode(a).id, step.predicates))
    ELSE SelectSeq(AxisNodes(heap, id, step.axis),
                   LAMBDA c : Passes(heap, c, step.test) /\ Holds(heap, c, step.predicates))

RECURSIVE Selected(_, _)
\* What a step selects from the items in order, the items that are no
\* nodes giving nothing
Selected(items, step) ==
    IF items = <<>> THEN <<>>
    ELSE (IF isNode(Head(items)) THEN Chosen(Head(items).n, step) ELSE <<>>)
         \o Selected(Tail(items), step)

\* An item of the result is what was selected
IsSelected(item, e, axis) ==
    IF axis = "attr"
    THEN /\ isNode(item)
         /\ heap[item.n].kind = "attribute"
         /\ heap[item.n].name = e[1]
         /\ heap[item.n].value = e[2]
    ELSE item = NodeItem(e)

TreeNodes(h, top) ==
    {top} \cup {iter_descendants(h, top)[i] : i \in DOMAIN iter_descendants(h, top)}

\* The top node has no parent, and every child of a node of the tree has
\* that node as its parent
IsTree(h, top) ==
    /\ h[top].parent = 0
    /\ \A n \in TreeNodes(h, top) :
          \A i \in DOMAIN h[n].children : h[h[n].children[i]].parent = n

\* The tree that was made: the copy, or the element constructed
MadeTree ==
    /\ pc = "done"
    /\ error = ""
    /\ \/ op = "deep_copy"
       \/ op = "eval_expr" /\ input.family = "construct"

\* C26: in every tree produced by parse_xml, by deep_copy and by an
\* element constructor the top node has no parent and every child of a
\* node has that node as its parent; ascending the parent links from any
\* node of the loaded document ends at the document node.
C26_ParentsAgree ==
    /\ IsTree(heap, 1)
    /\ heap[1].kind = "document"
    /\ \A n \in InputNodes(heap) : _root_of(heap, n) = 1
    /\ MadeTree => IsTree(heap, result[1].n)

\* An element constructed around the copy of an element that has children
C26_Witness ==
    /\ MadeTree
    /\ op = "eval_expr"
    /\ \E i \in DOMAIN heap[result[1].n].children :
          LET c == heap[result[1].n].children[i]
          IN  /\ heap[c].kind = "element"
              /\ heap[c].children # <<>>
              /\ heap[heap[c].children[1]].parent = c


RECURSIVE NthToken(_, _, _)
\* The n-th token of a text from pos on, read with _next_token alone; a
\* raise before it stands for it
NthToken(text, pos, n) ==
    IF n = 1 \/ _next_token(text, pos).tok.kind = "ERR"
    THEN _next_token(text, pos).tok
    ELSE NthToken(text, _next_token(text, pos).pos, n - 1)

\* The calls of next among the calls before the i-th
NextsBefore(calls, i) == Cardinality({j \in 1..(i - 1) : calls[j] = "next"})

\* A primary with the name texu given the name text
Renamed(e) ==
    IF e.type \in {"VarRef", "FuncCall"} /\ e.name = W_texu
    THEN [e EXCEPT !.name = N_text]
    ELSE IF e.type = "PathExpr" /\ e.start = PathStart("var", W_texu)
    THEN [e EXCEPT !.start = PathStart("var", N_text)]
    ELSE e

RECURSIVE FirstRenamed(_)
\* The expression with its first primary renamed
FirstRenamed(e) ==
    IF e.type = "BinaryOp" THEN [e EXCEPT !.left = FirstRenamed(@)] ELSE Renamed(e)

RECURSIVE FirstPrimary(_)
\* The first primary of an expression
FirstPrimary(e) == IF e.type = "BinaryOp" THEN FirstPrimary(e.left) ELSE e

\* The text with texu for its first name, which no lookahead is done for
NoLookahead(text) == Parser(W_texu \o SubSeq(text, Len(N_text) + 1, Len(text)))

\* C27: every call of peek and of next on a Lexer returns the token that
\* stands behind the tokens the calls of next before it have delivered, so
\* peek returns what the next call of next returns, repeated peeks return
\* the same token, and the tokens delivered by next do not depend on the
\* peeks made in between; and a primary `text` that is not followed by {
\* is parsed as any other name is, while text{e} is a text constructor.
C27_LookaheadTransparent ==
    /\ (pc = "done" /\ op = "lexer") =>
          /\ Len(result) <= Len(input.calls)
          /\ \A i \in DOMAIN result :
                result[i] = NthToken(input.text, 0, NextsBefore(input.calls, i) + 1)
          /\ Len(result) < Len(input.calls) => result[Len(result)].kind = "ERR"
    /\ (pc = "done" /\ op = "parse_module"
        /\ SubSeq(input.text, 1, Len(N_text)) = N_text) =>
          IF Is(_next_token(input.text, Len(N_text)).tok, "PUNCT", <<"{">>)
          THEN error = "" => FirstPrimary(result[1].expr).type = "TextConstructor"
          ELSE /\ error = NoLookahead(input.text).err
               /\ error = "" =>
                     result[1] = [NoLookahead(input.text).val
                                    EXCEPT !.expr = FirstRenamed(@)]

\* text(text) + text has been parsed: a call of the function text
C27_Witness ==
    /\ pc = "done"
    /\ op = "parse_module"
    /\ error = ""
    /\ result[1].expr =
          BinaryOp("+", FuncCall(N_text, <<VarRef(N_text)>>), VarRef(N_text))


\* C28: the body of a user function is evaluated in the caller's context
\* with the parameters laid over the caller's variables: a call gives what
\* the body gives at the place of the call with the parameters bound by
\* let, so the body sees the context item, position, last and the
\* variables in force there, and a parameter hides a variable of the
\* caller only inside the call.
C28_DynamicScope ==
    (pc = "done" /\ op = "eval_expr" /\ input.family = "dynamic") =>
        /\ error = eval_expr(input.inlined, input.ctx, Store(InputHeap, <<>>)).err
        /\ result = eval_expr(input.inlined, input.ctx, Store(InputHeap, <<>>)).val

\* for x in seq(8, 9) return g(7), called where x is 1
C28_Witness ==
    /\ pc = "done"
    /\ op = "eval_expr"
    /\ input.family = "dynamic"
    /\ input.ctx.variables = V_x :> <<Num(1)>>
    /\ input.ctx.position = 2
    /\ input.expr = CallSite("for", FuncCall(F_g, <<Literal(Num(7))>>))
    /\ result = <<Num(8), Num(7), Num(8), Num(1), Num(2),
                  Num(9), Num(7), Num(9), Num(2), Num(2)>>


\* The child elements of the context item of the operation
ChildElements ==
    NodeItems(SelectSeq(heap[input.ctx.context_item.n].children,
                        LAMBDA c : heap[c].kind = "element"))

\* What a form gives where the position and last are given, NoPos
\* standing for none
AtPosition(form, position, last) ==
    CASE form.kind = "inherit" ->
            IF position = NoPos THEN <<>> ELSE <<Num(position), Num(last)>>
      [] form.kind = "position" -> IF position = form.k THEN ChildElements ELSE <<>>
      [] form.kind = "last" -> IF last = form.k THEN ChildElements ELSE <<>>

RECURSIVE InIterations(_, _, _)
\* What a form gives in the first n of the iterations of a for
InIterations(form, n, last) ==
    IF n = 0 THEN <<>>
    ELSE InIterations(form, n - 1, last) \o AtPosition(form, n, last)

\* C29: inside the predicate of a path step position() and last() are the
\* position and last of the enclosing for-iteration, empty when there is
\* none, and never the index of the candidate; a let, the bodies of match,
\* of a function and of a rule inherit them unchanged, and only a
\* for-iteration sets them.
C29_PositionInherited ==
    (pc = "done" /\ op = "eval_expr" /\ input.family = "position") =>
        /\ error = ""
        /\ result = IF input.times = 0
                    THEN AtPosition(input.form, input.ctx.position, input.ctx.last)
                    ELSE InIterations(input.form, input.times, input.times)

\* for n in seq(., .) return ./*[position() = 2] on the element with three
\* children: the three of them, once
C29_Witness ==
    /\ pc = "done"
    /\ op = "eval_expr"
    /\ input.family = "position"
    /\ input.form.kind = "position"
    /\ input.form.k = 2
    /\ input.times = 2
    /\ Len(result) = 3


RECURSIVE TopOf(_, _)
\* The node the parent links of a node end at
TopOf(h, id) == IF h[id].parent = 0 THEN id ELSE TopOf(h, h[id].parent)

\* What a path from the root gives where the context item is the item
FromRoot(path, item) ==
    IF ~isNode(item) THEN <<>>
    ELSE LET top == TopOf(heap, item.n)
         IN  CASE path \in {"/", "//"} -> <<NodeItem(top)>>
               [] path = "//c" ->
                     NodeItems(SelectSeq(<<top>> \o iter_descendants(heap, top),
                                         LAMBDA n : heap[n].name = <<"c">>))
               [] path = "/*" ->
                     NodeItems(SelectSeq(heap[top].children,
                                         LAMBDA n : heap[n].kind = "element"))

RECURSIVE FromRoots(_, _)
\* What the path gives for the items one after another
FromRoots(path, items) ==
    IF items = <<>> THEN <<>>
    ELSE FromRoot(path, Head(items)) \o FromRoots(path, Tail(items))

\* The context items the path of the operation was evaluated on
RootItems ==
    IF input.seq = NoExpr THEN <<input.ctx.context_item>>
    ELSE eval_expr(input.seq, input.ctx, Store(InputHeap, <<>>)).val

\* C30: the path starts / and // are resolved from the current context
\* item by ascending its parent links, not from the document that was
\* loaded: they give nothing when the context item is an atomic value or
\* absent, and for a node without parent (a constructor result, a text{}
\* node, an attribute node) the root is that node itself.
C30_RootOfContextItem ==
    (pc = "done" /\ op = "eval_expr" /\ input.family = "root") =>
        /\ error = ""
        /\ result = FromRoots(input.path, RootItems)

\* for n in <o>{.}</o>/node() return /, on an element: the root of the
\* copy is the element constructed, which is no node of the document
C30_Witness ==
    /\ pc = "done"
    /\ op = "eval_expr"
    /\ input.family = "root"
    /\ input.path = "/"
    /\ input.seq # NoExpr
    /\ input.seq.type = "LetExpr"
    /\ result # <<>>
    /\ heap[result[1].n].name = S_o
    /\ heap[result[1].n].parent = 0
    /\ result[1].n > Len(InputHeap)

====
